---- MODULE Spec2Model ----
(***************************************************************************)
(* A model of fortio's fnet package (src/fnet/network.go): the destination *)
(* resolver with its lock-protected round-robin DNS cache, and the relay   *)
(* proxy session (handleProxyRequest / transfer).                          *)
(***************************************************************************)
EXTENDS Integers, Sequences, FiniteSets

(***************************************************************************)
(* Bounds of the model.                                                    *)
(***************************************************************************)
\* goroutines that are inside the resolver at the same time
NumProcs == 2
\* calls of ResolveByProto / ClearResolveCache in a behaviour of Spec
MaxCalls == 4
\* calls of ResolveByProto / ClearResolveCache in a behaviour of SpecFlags
MaxFlagCalls == 2

Procs == 1..NumProcs
\* bytes each peer of a proxied session sends
MaxBytes == 2
\* connections or datagrams a server loop accepts
MaxAccepts == 2
\* the largest payload size asked for, in bytes: MaxPayloadSize and the
\* sizes requested range over -1 .. MaxSize + 1
MaxSize == 2
\* calls of ChangeMaxPayloadSize after the one of init()
MaxChanges == 2
\* REST requests that are being served at the same time
NumReqs == 2
\* runs that the REST run handler registers in a behaviour
MaxRuns == 2

(***************************************************************************)
(* dnsRoundRobin is a uint32 (network.go:82).  A value is kept as two 16   *)
(* bit limbs <<high, low>>, so that the arithmetic is the 32 bit           *)
(* arithmetic of the program: the increment wraps at 2^32.                 *)
(***************************************************************************)
UintBits == 32
Limb == 2^(UintBits \div 2)
U32(k) == <<k \div Limb, k % Limb>>
\* c + 1 in uint32
U32Inc(c) ==
  IF c[2] = Limb - 1 THEN <<(c[1] + 1) % Limb, 0>> ELSE <<c[1], c[2] + 1>>
\* c % n in uint32, for 0 < n
U32Rem(c, n) == ((c[1] % n) * (Limb % n) + c[2]) % n

(***************************************************************************)
(* Inputs.  A host is a sequence of tokens so that the bracket stripping   *)
(* of ResolveByProto is a real operation: <<"[", "::1", "]">> is "[::1]".  *)
(* <<>> is the empty host that a destination such as ":8080" yields.       *)
(***************************************************************************)
HostInputs ==
  { <<>>, <<"a">>, <<"127.0.0.1">>, <<"::1">>, <<"[", "::1", "]">> }

\* hosts that net.ParseIP accepts
IPLiterals == { <<"127.0.0.1">>, <<"::1">> }

\* the values of the dns-method flag that dnsValidator accepts
Methods == { "cached-rr", "rnd", "rr", "first" }
\* the default of the flag (network.go:74)
DefaultMethod == "cached-rr"

\* what net.DefaultResolver.LookupIP may answer when it reports no error
AddrLists ==
  { <<>>, <<"i1">>, <<"i1", "i2">>, <<"i2", "i3", "i1">> }

NilIP == "nil"
NoErr == "nil"
\* a local addrs that holds no lookup result
NoAddrs == <<"none">>
\* no host is awaited
NoHost == <<"none">>

\* the step just taken returned nothing
NoRet ==
  [who |-> 0, line |-> 0, arg |-> <<>>, method |-> DefaultMethod, n |-> 0,
   ip |-> NilIP, err |-> NoErr]

VARIABLES
  \* ---- resolver: shared state (network.go:78-82)
  dnsMutex,       \* 0 when unlocked, else the goroutine that holds the lock
  dnsHost,
  dnsAddrs,
  dnsRoundRobin,
  \* ---- resolver: one caller per goroutine
  pc,             \* position of the goroutine
  site,           \* the call of checkCache it is in: 1 (line 375), 2 (line 391)
  arg,            \* the host argument as passed
  host,           \* local host (brackets stripped)
  dnsMethod,      \* local dnsMethod, read from the flag at line 371
  addrs,          \* local addrs, the result of LookupIP
  idx,            \* local idx
  ld,             \* the value of dnsRoundRobin loaded by an increment in progress
  ret,            \* the return of ResolveByProto made by the step just taken:
                  \* who returned, at which line, for which argument and method,
                  \* with how many looked up addresses, and the result
  \* ---- resolver: history
  calls,          \* calls started so far
  passes,         \* resolutions served under the lock from the current entry
  lastIdx,        \* the index the current entry served last, -1 before any
  populated,      \* since p's miss another caller installed p's host
  interfered,     \* since p's miss the cache was cleared or given another host
  stale,          \* p's addrs were looked up before the latest clear
  dnsStale,       \* the cached list was looked up before the latest clear
  nextFor,        \* host cached at the latest clear, until its next resolution starts
  isNext,         \* p is that next resolution
  \* ---- proxy: one session of handleProxyRequest (network.go:507-527)
  hpc,            \* position of the handler
  kind,           \* of each connection: "none" (not there), "tcp" or "unix"
  closed,         \* how many times Close() was called on each connection
  rdShut,         \* CloseRead() was called on the connection
  wrShut,         \* CloseWrite() was called on the connection
  wg,             \* the WaitGroup's counter
  tpc,            \* position of the transfer of each direction
  done,           \* how many times the transfer called wg.Done()
  endedBy,        \* how the transfer's io.Copy ended
  buf,            \* bytes the copy has read and not yet written
  \* ---- proxy: the two peers, and the network between them and the relay
  inQ,            \* bytes that arrived on the connection, not yet read
  out,            \* bytes the relay wrote to the connection
  sentN,          \* how many bytes the peer has sent: its stream is 1..sentN
  peerEOF,        \* the peer has ended its stream
  \* ---- proxy: history
  late,           \* the peers that sent a byte after the opposite direction
                  \* had ended
  \* ---- servers: the accept/receive loops of TCPEchoServer, UDPEchoServer, Proxy
  lpc,            \* position of each server: "off", "nil" (the bind failed and
                  \* the call returned nil), "Accept" (its goroutine is in the loop)
  listening,      \* the listener is open
  accepts,        \* connections or datagrams the loop has accepted
  spawned,        \* handlers the loop has started
  errSeen,        \* an accept or receive of the loop has failed
  okAfterErr,     \* the loop has accepted after an accept or receive failed
  failedDials,    \* proxied sessions that ended on a nil destination or a failed dial
  \* ---- servers: the handler of an accepted TCP echo connection (175-180)
  epc,            \* position of handleTCPEchoRequest
  econnClosed,    \* how many times Close() was called on its connection
  \* ---- Copy (network.go:429-463), one record per running call
  cpc,            \* position of the call: "idle", "Read", "Write", "returned"
  rdN,            \* bytes it has read from src: the stream read is 1..rdN
  nr,             \* local nr of the iteration
  er,             \* local er of the iteration
  nw,             \* local nw of the iteration
  ew,             \* local ew of the iteration
  dstW,           \* the bytes dst has accepted
  written,        \* result written
  err,            \* result err
  logged,         \* the levels at which the call has logged a read or write error
  \* ---- NetCat / UDPNetCat (network.go:658-730), one call
  npc,            \* position of the call
  gpc,            \* position of the goroutine it starts
  proto,          \* "udp" for a destination that starts with udp://, else "tcp"
  stopOnEOF,      \* argument stopOnEOF
  ncWg,           \* the WaitGroup's counter
  we,             \* variable we: the error of Copy(d, in)
  re,             \* variable re: the error of Copy(out, d)
  nres,           \* the error the call returned
  waited,         \* the call has passed wg.Wait()
  dState,         \* the socket d: how many times it was closed, whether its
                  \* write side was shut, whether a read deadline was set
  ioClosed,       \* how many times the close of in, and of out, was run: the
                  \* statements of lines 688-693, which close a stream that
                  \* implements io.Closer
  \* ---- NetCat: the peer behind the socket
  sent,           \* bytes or datagrams the peer has sent
  peerFin,        \* the peer has ended its stream (TCP)
  sockErr,        \* the socket has failed (reset, unreachable)
  \* ---- UDPEchoServer (network.go:211-239)
  async,          \* argument async
  uq,             \* the datagrams sent to the server and not yet received
  urcvd,          \* the datagrams ReadFromUDP has returned, in order
  uhandlers,      \* the goroutines of handleUDPEchoRequest that have not written
  uwrites,        \* the calls of WriteToUDP, in order
  ubuf,           \* the buffers the UDP loop has allocated, and their bytes
  \* ---- the payload buffer (network.go:57-61, 99-118, 574-615)
  MaxPayloadSize, \* variable MaxPayloadSize
  Payload,        \* variable Payload: the shared buffer
  chg,            \* position of the ChangeMaxPayloadSize call in progress
  gen,            \* how many times the buffer was filled
  pret,           \* the last call of GeneratePayload and what it returned
  \* ---- the registry of runs (restHandler.go:49-53)
  uiRunMapMutex,  \* 0 when free, else the request that holds it
  id,             \* variable id: the last run id given
  runs,           \* the keys of the map runs; a run's options are those of
                  \* the request that registered it, so a key stands for them
  assigned,       \* the ids AddRun has returned, in the order of the lock
  aborted,        \* how many times Abort() was called on each run
  rq              \* the requests being served: position and locals

dnsShared == <<dnsMutex, dnsHost, dnsAddrs, dnsRoundRobin>>
dnsLocals == <<pc, site, arg, host, dnsMethod, addrs, idx, ld>>
dnsFlags == <<populated, interfered, stale, isNext>>
dnsHistory == <<calls, passes, lastIdx, dnsStale, nextFor>>
dnsVars == <<dnsShared, dnsLocals, ret, dnsFlags, dnsHistory>>

proxyRelay == <<hpc, kind, closed, rdShut, wrShut, wg, tpc, done, endedBy, buf>>
proxyNet == <<inQ, out, sentN, peerEOF, late>>
proxyVars == <<proxyRelay, proxyNet>>

loopVars == <<lpc, listening, accepts, spawned, errSeen, okAfterErr, failedDials>>
echoVars == <<epc, econnClosed>>
srvVars == <<loopVars, echoVars>>
copyVars == <<cpc, rdN, nr, er, nw, ew, dstW, written, err, logged>>

ncCall == <<npc, gpc, proto, stopOnEOF, ncWg, we, re, nres, waited>>
ncSock == <<dState, ioClosed, sent, peerFin, sockErr>>
ncVars == <<ncCall, ncSock>>
\* what the resolver and a proxied session never touch
udpVars == <<async, uq, urcvd, uhandlers, uwrites, ubuf>>
ioVars == <<echoVars, copyVars, ncVars, udpVars>>
sessionVars == <<proxyVars, ioVars>>

coreVars == <<dnsVars, proxyVars, loopVars, ioVars>>
payVars == <<MaxPayloadSize, Payload, chg, gen, pret>>
runVars == <<uiRunMapMutex, id, runs, assigned, aborted, rq>>
apiVars == <<payVars, runVars>>

vars == <<coreVars, apiVars>>

(***************************************************************************)
(* Pure helpers of ResolveByProto.                                         *)
(***************************************************************************)
\* a mutant of StripBrackets: the brackets are kept
StripBracketsKept(h) == h

\* network.go:354-357
StripBrackets(h) ==
  IF Len(h) >= 2 /\ h[1] = "[" /\ h[Len(h)] = "]"
    THEN SubSeq(h, 2, Len(h) - 1)
    ELSE h

\* net.ParseIP as used at network.go:364: the IP, or nil
ParseIP(h) == IF h \in IPLiterals THEN h[1] ELSE NilIP

\* Go slice index (0 based) into a TLA+ sequence
At(s, i) == s[i + 1]

\* a mutant of found: the cached host is never recognised
foundNever(h) == FALSE

\* network.go:334: the requested host is the cached one
found(h) == h = dnsHost

\* a mutant of FirstCounter: the counter restarts at the address just returned
FirstCounterZero == U32(0)

\* network.go:399: the counter after an install, "next one after 0"
FirstCounter == U32(1)

\* a mutant of InstalledAddrs: the new list is merged into the old one
InstalledAddrsMerged(old, new) == old \o new

\* network.go:397: the list an install leaves in the cache
InstalledAddrs(old, new) == new

\* network.go:78-82: the cache of a program that has resolved nothing
InitCache ==
  /\ dnsHost = <<>>
  /\ dnsAddrs = <<>>
  /\ dnsRoundRobin = U32(0)
  /\ lastIdx = -1

\* the largest uint32, and the counters of an entry one and two hits before
\* the increment of line 340 wraps
U32Max == <<Limb - 1, Limb - 1>>
NearWrap == {<<Limb - 1, Limb - 2>>, U32Max}

\* The cache of a program whose entry for host "a", of two or three
\* addresses, has been served under the lock since its install: the install
\* left the counter at 1 and every hit added 1 (lines 399 and 340), so the
\* entry at counter c has served index (c - 1) mod N last.
WrapCache ==
  /\ dnsHost = <<"a">>
  /\ dnsAddrs \in {L \in AddrLists : Len(L) > 1}
  /\ dnsRoundRobin \in NearWrap
  /\ lastIdx = U32Rem(<<dnsRoundRobin[1], dnsRoundRobin[2] - 1>>, Len(dnsAddrs))

InitCallers ==
  /\ dnsMutex = 0
  /\ pc = [p \in Procs |-> "idle"]
  /\ site = [p \in Procs |-> 1]
  /\ arg = [p \in Procs |-> <<>>]
  /\ host = [p \in Procs |-> <<>>]
  /\ dnsMethod = [p \in Procs |-> DefaultMethod]
  /\ addrs = [p \in Procs |-> NoAddrs]
  /\ idx = [p \in Procs |-> 0]
  /\ ld = [p \in Procs |-> U32(0)]
  /\ ret = NoRet
  /\ calls = 0
  /\ passes = 0
  /\ populated = [p \in Procs |-> FALSE]
  /\ interfered = [p \in Procs |-> FALSE]
  /\ stale = [p \in Procs |-> FALSE]
  /\ dnsStale = FALSE
  /\ nextFor = NoHost
  /\ isNext = [p \in Procs |-> FALSE]

InitDNS == InitCache /\ InitCallers

\* A panic that nothing recovers ends the program: no goroutine runs after it.
Running == \A q \in Procs : pc[q] # "panic"

\* Idle goroutines are interchangeable: a new call runs in the lowest idle one.
FreeSlot(p) ==
  /\ Running
  /\ pc[p] = "idle"
  /\ \A q \in Procs : q < p => pc[q] # "idle"

\* a caller that missed at line 375 and has not yet re-checked at line 391
InWindow(q) ==
  \/ pc[q] = "LookupIP" /\ dnsMethod[q] = "cached-rr"
  \/ pc[q] = "miss" /\ site[q] = 1
  \/ pc[q] = "checkCache" /\ site[q] = 2

\* p returns: its locals are gone
Return(p, atLine, a, m, cnt, res, e) ==
  /\ pc' = [pc EXCEPT ![p] = "idle"]
  /\ ret' = [who |-> p, line |-> atLine, arg |-> a, method |-> m, n |-> cnt,
             ip |-> res, err |-> e]
  /\ site' = [site EXCEPT ![p] = 1]
  /\ arg' = [arg EXCEPT ![p] = <<>>]
  /\ host' = [host EXCEPT ![p] = <<>>]
  /\ dnsMethod' = [dnsMethod EXCEPT ![p] = DefaultMethod]
  /\ addrs' = [addrs EXCEPT ![p] = NoAddrs]
  /\ idx' = [idx EXCEPT ![p] = 0]
  /\ ld' = [ld EXCEPT ![p] = U32(0)]
  /\ stale' = [stale EXCEPT ![p] = FALSE]
  /\ isNext' = [isNext EXCEPT ![p] = FALSE]

\* p moves to position at, and nothing returns
Goto(p, at) ==
  /\ pc' = [pc EXCEPT ![p] = at]
  /\ ret' = NoRet

(***************************************************************************)
(* ResolveByProto, network.go:351-373: bracket stripping, net.LookupPort,  *)
(* net.ParseIP and the reads of the two flags.  h is the host argument,    *)
(* portOK whether LookupPort resolves the port, m the value of dns-method. *)
(***************************************************************************)
ResolveByProto(p, h, portOK, m) ==
  /\ FreeSlot(p)
  /\ calls' = calls + 1
  /\ UNCHANGED <<dnsShared, passes, lastIdx, dnsStale, populated, interfered>>
  /\ IF ~portOK
       THEN /\ Return(p, 363, h, m, 0, NilIP, "port")
            /\ UNCHANGED nextFor
       ELSE IF ParseIP(StripBrackets(h)) # NilIP
         THEN /\ Return(p, 369, h, m, 0, ParseIP(StripBrackets(h)), NoErr)
              /\ UNCHANGED nextFor
         ELSE /\ arg' = [arg EXCEPT ![p] = h]
              /\ host' = [host EXCEPT ![p] = StripBrackets(h)]
              /\ dnsMethod' = [dnsMethod EXCEPT ![p] = m]
              /\ Goto(p, IF m = "cached-rr" THEN "checkCache" ELSE "LookupIP")
              /\ isNext' = [isNext EXCEPT ![p] =
                          m = "cached-rr" /\ StripBrackets(h) = nextFor]
              /\ nextFor' = IF m = "cached-rr" /\ StripBrackets(h) = nextFor
                              THEN NoHost ELSE nextFor
              /\ UNCHANGED <<site, addrs, idx, ld, stale>>
  /\ UNCHANGED <<apiVars, proxyVars, loopVars, ioVars>>

(***************************************************************************)
(* checkCache, network.go:332-344.  The Lock, the comparison and line 339  *)
(* are one step; the increment of line 340 is a load and a store, because  *)
(* the "rr" method writes dnsRoundRobin without the lock.                  *)
(***************************************************************************)
checkCacheLock(p) ==
  /\ pc[p] = "checkCache"
  /\ Running
  /\ dnsMutex = 0
  /\ dnsMutex' = p
  /\ IF ~found(host[p])
       THEN \* keep the lock locked
            /\ Goto(p, "miss")
            /\ UNCHANGED idx
       ELSE IF Len(dnsAddrs) = 0
         THEN \* dnsRoundRobin % 0: integer divide by zero
              /\ Goto(p, "panic")
              /\ UNCHANGED idx
         ELSE /\ idx' = [idx EXCEPT ![p] = U32Rem(dnsRoundRobin, Len(dnsAddrs))]
              /\ Goto(p, "ccLoad")
  /\ UNCHANGED <<dnsHost, dnsAddrs, dnsRoundRobin>>
  /\ UNCHANGED <<site, arg, host, dnsMethod, addrs, ld, dnsFlags, dnsHistory>>
  /\ UNCHANGED <<apiVars, proxyVars, loopVars, ioVars>>

checkCacheLoad(p) ==
  /\ pc[p] = "ccLoad"
  /\ Running
  /\ ld' = [ld EXCEPT ![p] = dnsRoundRobin]
  /\ Goto(p, "ccStore")
  /\ UNCHANGED <<dnsShared, site, arg, host, dnsMethod, addrs, idx>>
  /\ UNCHANGED <<dnsFlags, dnsHistory>>
  /\ UNCHANGED <<apiVars, proxyVars, loopVars, ioVars>>

\* lines 340-342, and the return of line 377 or 393
checkCacheStore(p) ==
  /\ pc[p] = "ccStore"
  /\ Running
  /\ dnsRoundRobin' = U32Inc(ld[p])
  /\ dnsMutex' = 0
  /\ Return(p, IF site[p] = 1 THEN 377 ELSE 393, arg[p], dnsMethod[p],
            IF site[p] = 1 THEN 0 ELSE Len(addrs[p]),
            At(dnsAddrs, idx[p]), NoErr)
  /\ populated' = [populated EXCEPT ![p] = FALSE]
  /\ interfered' = [interfered EXCEPT ![p] = FALSE]
  /\ passes' = passes + 1
  /\ lastIdx' = idx[p]
  /\ UNCHANGED <<dnsHost, dnsAddrs, calls, dnsStale, nextFor>>
  /\ UNCHANGED <<apiVars, proxyVars, loopVars, ioVars>>

\* a mutant of Unlock379: the miss path forgets to unlock
Unlock379Forgotten(p) ==
  /\ pc[p] = "miss"
  /\ Running
  /\ site[p] = 1
  /\ Goto(p, "LookupIP")
  /\ UNCHANGED <<dnsShared, site, arg, host, dnsMethod, addrs, idx, ld>>
  /\ UNCHANGED <<dnsFlags, dnsHistory>>
  /\ UNCHANGED <<apiVars, proxyVars, loopVars, ioVars>>

\* network.go:379, after the miss of line 375
Unlock379(p) ==
  /\ pc[p] = "miss"
  /\ Running
  /\ site[p] = 1
  /\ dnsMutex' = 0
  /\ Goto(p, "LookupIP")
  /\ UNCHANGED <<dnsHost, dnsAddrs, dnsRoundRobin>>
  /\ UNCHANGED <<site, arg, host, dnsMethod, addrs, idx, ld, dnsFlags, dnsHistory>>
  /\ UNCHANGED <<apiVars, proxyVars, loopVars, ioVars>>

(***************************************************************************)
(* network.go:381-415 up to the next access of shared state: the answer of *)
(* the system resolver, and what the caller does with it by itself.        *)
(***************************************************************************)
LookupFails(p) ==
  /\ pc[p] = "LookupIP"
  /\ Running
  /\ Return(p, 384, arg[p], dnsMethod[p], 0, NilIP, "lookup")
  /\ populated' = [populated EXCEPT ![p] = FALSE]
  /\ interfered' = [interfered EXCEPT ![p] = FALSE]
  /\ UNCHANGED <<dnsShared, dnsHistory>>
  /\ UNCHANGED <<apiVars, proxyVars, loopVars, ioVars>>

LookupIP(p, L) ==
  /\ pc[p] = "LookupIP"
  /\ Running
  /\ UNCHANGED <<dnsShared, dnsHistory>>
  /\ IF Len(L) > 1 /\ dnsMethod[p] \in {"cached-rr", "rr"}
       THEN /\ addrs' = [addrs EXCEPT ![p] = L]
            /\ Goto(p, IF dnsMethod[p] = "cached-rr" THEN "checkCache" ELSE "rrIdx")
            /\ site' = [site EXCEPT ![p] =
                        IF dnsMethod[p] = "cached-rr" THEN 2 ELSE 1]
            /\ stale' = [stale EXCEPT ![p] = FALSE]
            /\ UNCHANGED <<arg, host, dnsMethod, idx, ld, populated, interfered, isNext>>
       ELSE IF Len(L) = 0
         THEN \* line 413, addrs[0] of an empty slice: index out of range
              /\ addrs' = [addrs EXCEPT ![p] = L]
              /\ Goto(p, "panic")
              /\ UNCHANGED <<site, arg, host, dnsMethod, idx, ld, dnsFlags>>
         ELSE \* one address, or "first" (idx 0), or "rnd" (rand.Intn(l))
              \E i \in 0..(Len(L) - 1) :
                /\ dnsMethod[p] # "rnd" => i = 0
                /\ Return(p, 415, arg[p], dnsMethod[p], Len(L), At(L, i), NoErr)
                /\ populated' = [populated EXCEPT ![p] = FALSE]
                /\ interfered' = [interfered EXCEPT ![p] = FALSE]
  /\ UNCHANGED <<apiVars, proxyVars, loopVars, ioVars>>

\* network.go:396-400 and 413-415, after the miss of line 391
Install(p) ==
  /\ pc[p] = "miss"
  /\ Running
  /\ site[p] = 2
  /\ dnsHost' = host[p]
  /\ dnsAddrs' = InstalledAddrs(dnsAddrs, addrs[p])
  /\ dnsRoundRobin' = FirstCounter
  /\ dnsMutex' = 0
  /\ Return(p, 415, arg[p], dnsMethod[p], Len(addrs[p]), At(addrs[p], 0), NoErr)
  /\ populated' = [q \in Procs |->
       IF q = p THEN FALSE
       ELSE populated[q] \/ (InWindow(q) /\ host[q] = host[p])]
  /\ interfered' = [q \in Procs |->
       IF q = p THEN FALSE
       ELSE interfered[q] \/ (InWindow(q) /\ host[q] # host[p])]
  /\ passes' = 1
  /\ lastIdx' = 0
  /\ dnsStale' = stale[p]
  /\ UNCHANGED <<calls, nextFor>>
  /\ UNCHANGED <<apiVars, proxyVars, loopVars, ioVars>>

(***************************************************************************)
(* The "rr" method, network.go:402-404 and 413-415: line 403 reads the     *)
(* counter, line 404 loads and stores it, all without the lock.            *)
(***************************************************************************)
rrIdx(p) ==
  /\ pc[p] = "rrIdx"
  /\ Running
  /\ idx' = [idx EXCEPT ![p] = U32Rem(dnsRoundRobin, Len(addrs[p]))]
  /\ Goto(p, "rrLoad")
  /\ UNCHANGED <<dnsShared, site, arg, host, dnsMethod, addrs, ld>>
  /\ UNCHANGED <<dnsFlags, dnsHistory>>
  /\ UNCHANGED <<apiVars, proxyVars, loopVars, ioVars>>

rrLoad(p) ==
  /\ pc[p] = "rrLoad"
  /\ Running
  /\ ld' = [ld EXCEPT ![p] = dnsRoundRobin]
  /\ Goto(p, "rrStore")
  /\ UNCHANGED <<dnsShared, site, arg, host, dnsMethod, addrs, idx>>
  /\ UNCHANGED <<dnsFlags, dnsHistory>>
  /\ UNCHANGED <<apiVars, proxyVars, loopVars, ioVars>>

\* a mutant of rrStore: the counter is reset instead of incremented
rrStoreReset(p) ==
  /\ pc[p] = "rrStore"
  /\ Running
  /\ dnsRoundRobin' = U32(0)
  /\ Return(p, 415, arg[p], dnsMethod[p], Len(addrs[p]), At(addrs[p], idx[p]), NoErr)
  /\ UNCHANGED <<dnsMutex, dnsHost, dnsAddrs, populated, interfered, dnsHistory>>
  /\ UNCHANGED <<apiVars, proxyVars, loopVars, ioVars>>

rrStore(p) ==
  /\ pc[p] = "rrStore"
  /\ Running
  /\ dnsRoundRobin' = U32Inc(ld[p])
  /\ Return(p, 415, arg[p], dnsMethod[p], Len(addrs[p]), At(addrs[p], idx[p]), NoErr)
  /\ UNCHANGED <<dnsMutex, dnsHost, dnsAddrs, populated, interfered, dnsHistory>>
  /\ UNCHANGED <<apiVars, proxyVars, loopVars, ioVars>>

(***************************************************************************)
(* ClearResolveCache, network.go:324-329.                                  *)
(***************************************************************************)
ClearResolveCacheLock(p) ==
  /\ FreeSlot(p)
  /\ dnsMutex = 0
  /\ dnsMutex' = p
  /\ calls' = calls + 1
  /\ Goto(p, "clear")
  /\ UNCHANGED <<dnsHost, dnsAddrs, dnsRoundRobin>>
  /\ UNCHANGED <<site, arg, host, dnsMethod, addrs, idx, ld>>
  /\ UNCHANGED <<dnsFlags, passes, lastIdx, dnsStale, nextFor>>
  /\ UNCHANGED <<apiVars, proxyVars, loopVars, ioVars>>

ClearResolveCacheBody(p) ==
  /\ pc[p] = "clear"
  /\ Running
  /\ dnsHost' = <<>>
  /\ dnsAddrs' = <<>>
  /\ dnsMutex' = 0
  /\ Goto(p, "idle")
  /\ passes' = 0
  /\ lastIdx' = -1
  /\ dnsStale' = FALSE
  /\ nextFor' = IF Len(dnsAddrs) > 0 THEN dnsHost ELSE nextFor
  /\ isNext' = [q \in Procs |-> FALSE]
  /\ stale' = [q \in Procs |-> addrs[q] # NoAddrs]
  /\ interfered' = [q \in Procs |-> interfered[q] \/ InWindow(q)]
  /\ UNCHANGED <<dnsRoundRobin, site, arg, host, dnsMethod, addrs, idx, ld,
                 calls, populated>>
  /\ UNCHANGED <<apiVars, proxyVars, loopVars, ioVars>>

\* the steps inside a call under the default dns-method, and inside a clear
Step ==
  \/ \E p \in Procs : checkCacheLock(p)
  \/ \E p \in Procs : checkCacheLoad(p)
  \/ \E p \in Procs : checkCacheStore(p)
  \/ \E p \in Procs : Unlock379(p)
  \/ \E p \in Procs : LookupFails(p)
  \/ \E p \in Procs, L \in AddrLists : LookupIP(p, L)
  \/ \E p \in Procs : Install(p)
  \/ \E p \in Procs : ClearResolveCacheBody(p)

\* the steps of the "rr" method
StepRR ==
  \/ \E p \in Procs : rrIdx(p)
  \/ \E p \in Procs : rrLoad(p)
  \/ \E p \in Procs : rrStore(p)

(***************************************************************************)
(* The server loops: TCPEchoServer (network.go:183-202), UDPEchoServer     *)
(* (211-239) and Proxy (530-549). Each binds, and on success starts a      *)
(* goroutine that accepts or receives for ever.                            *)
(***************************************************************************)
Servers == {"echo", "udp", "proxy"}

InitLoops ==
  /\ lpc = [s \in Servers |-> "off"]
  /\ listening = [s \in Servers |-> FALSE]
  /\ accepts = [s \in Servers |-> 0]
  /\ spawned = [s \in Servers |-> 0]
  /\ errSeen = [s \in Servers |-> FALSE]
  /\ okAfterErr = [s \in Servers |-> FALSE]
  /\ failedDials = 0

\* the bookkeeping of a successful Accept or ReadFromUDP of server s, which
\* starts a handler
Accepted(s) ==
  /\ accepts' = [accepts EXCEPT ![s] = @ + 1]
  /\ spawned' = [spawned EXCEPT ![s] = @ + 1]
  /\ okAfterErr' = [okAfterErr EXCEPT ![s] = @ \/ errSeen[s]]

\* Listen (network.go:136-154) and UDPListen (157-173): the listener and its
\* address, or nil and nil when the bind (or, for UDP, the resolution of the
\* address) fails
Listen(ok) ==
  IF ok THEN [listener |-> "listener", addr |-> "addr"]
  ELSE [listener |-> "nil", addr |-> "nil"]

StartsLoopAlways(l) == TRUE

\* lines 185-187, 216-218, 532-534: the server returns nil, before its
\* go statement, when the listener is nil
StartsLoop(l) == l.listener # "nil"

\* TCPEchoServer, UDPEchoServer or Proxy is called: Listen or UDPListen
\* binds, or fails and the call returns nil. The servers share nothing: a
\* behaviour follows one of them.
Start(s, ok) ==
  /\ \A t \in Servers : lpc[t] = "off"
  /\ lpc' = [lpc EXCEPT ![s] = IF StartsLoop(Listen(ok)) THEN "Accept" ELSE "nil"]
  /\ listening' = [listening EXCEPT ![s] = Listen(ok).listener # "nil"]
  /\ UNCHANGED <<accepts, spawned, errSeen, okAfterErr, failedDials>>
  /\ UNCHANGED <<apiVars, dnsVars, sessionVars>>

AcceptErrExits(s) ==
  /\ lpc[s] = "Accept"
  /\ lpc' = [lpc EXCEPT ![s] = "exited"]
  /\ errSeen' = [errSeen EXCEPT ![s] = TRUE]
  /\ UNCHANGED <<listening, accepts, spawned, okAfterErr, failedDials>>
  /\ UNCHANGED <<apiVars, dnsVars, sessionVars>>

\* lines 191-193, 223-225, 537-539: Accept or ReadFromUDP returns an error,
\* which is logged, and the loop is at its top again
AcceptErr(s) ==
  /\ lpc[s] = "Accept"
  /\ errSeen' = [errSeen EXCEPT ![s] = TRUE]
  /\ UNCHANGED <<lpc, listening, accepts, spawned, okAfterErr, failedDials>>
  /\ UNCHANGED <<apiVars, dnsVars, sessionVars>>

\* the listener is closed from outside: from now on every Accept fails
CloseListener(s) ==
  /\ lpc[s] = "Accept"
  /\ listening[s]
  /\ listening' = [listening EXCEPT ![s] = FALSE]
  /\ UNCHANGED <<lpc, accepts, spawned, errSeen, okAfterErr, failedDials>>
  /\ UNCHANGED <<apiVars, dnsVars, sessionVars>>

(***************************************************************************)
(* Copy (network.go:429-463): read into the buffer, write what was read,   *)
(* until a read or a write ends the loop. The reader and the writer are    *)
(* the environment: a Read answers any (n, error), a Write of n bytes any  *)
(* (0..n, error).                                                          *)
(***************************************************************************)
\* the calls of Copy: handleTCPEchoRequest's, and NetCat's two pumps
Copies == {"echo", "up", "down"}

Nil == "nil"
EOF == "EOF"
ErrShortWrite == "short write"
\* what a Read can report: no error, io.EOF, a timeout, another error
ReadErrs == {Nil, EOF, "timeout", "read error"}
\* what a Write can report
WriteErrs == {Nil, "write error"}

InitCopy ==
  /\ cpc = [i \in Copies |-> "idle"]
  /\ rdN = [i \in Copies |-> 0]
  /\ nr = [i \in Copies |-> 0]
  /\ er = [i \in Copies |-> Nil]
  /\ nw = [i \in Copies |-> 0]
  /\ ew = [i \in Copies |-> Nil]
  /\ dstW = [i \in Copies |-> <<>>]
  /\ written = [i \in Copies |-> 0]
  /\ err = [i \in Copies |-> Nil]
  /\ logged = [i \in Copies |-> {}]

\* the call Copy(dst, src) is made: line 430
CopyStart(i) ==
  /\ cpc' = [cpc EXCEPT ![i] = "Read"]
  /\ rdN' = [rdN EXCEPT ![i] = 0]
  /\ nr' = [nr EXCEPT ![i] = 0]
  /\ er' = [er EXCEPT ![i] = Nil]
  /\ nw' = [nw EXCEPT ![i] = 0]
  /\ ew' = [ew EXCEPT ![i] = Nil]
  /\ dstW' = [dstW EXCEPT ![i] = <<>>]
  /\ written' = [written EXCEPT ![i] = 0]
  /\ err' = [err EXCEPT ![i] = Nil]
  /\ logged' = [logged EXCEPT ![i] = {}]

\* buf[0:nr] of the iteration: the last nr bytes read
Chunk(i) == [k \in 1..nr[i] |-> rdN[i] - nr[i] + k]

TakenTail(chunk, w) == SubSeq(chunk, Len(chunk) - w + 1, Len(chunk))

\* line 436: the bytes of buf[0:nr] a Write that answers w has accepted
Taken(chunk, w) == SubSeq(chunk, 1, w)

WriteErrShortFirst(n, w, e) ==
  IF n # w THEN ErrShortWrite ELSE e

\* lines 441-449: the error a write ends the loop with, Nil if it does not
WriteErr(n, w, e) ==
  IF e # Nil THEN e
  ELSE IF n # w THEN ErrShortWrite
  ELSE Nil

ReadResultAllLogged(e) ==
  [err |-> IF e = EOF THEN Nil ELSE e,
   log |-> IF e = EOF THEN {} ELSE {<<"error", "read">>}]

\* lines 451-461: the result err of a loop ended by read error e, and its log
ReadResult(e) ==
  [err |-> IF e = EOF THEN Nil ELSE e,
   log |-> IF e = "timeout" THEN {<<"verbose", "read">>}
           ELSE IF e = EOF THEN {}
           ELSE {<<"error", "read">>}]

\* lines 451-462: the loop breaks on read error e and Copy returns
CopyBreakOnRead(i, e) ==
  /\ err' = [err EXCEPT ![i] = ReadResult(e).err]
  /\ logged' = [logged EXCEPT ![i] = @ \cup ReadResult(e).log]
  /\ cpc' = [cpc EXCEPT ![i] = "returned"]

\* What a Read of src can answer. The echo connection and NetCat's in are
\* any reader. NetCat's socket fails once closed or broken, else delivers
\* what the peer has sent, else reports the end of the peer's stream, else
\* times out if a read deadline was set, else blocks.
CanRead(i, n, e) ==
  IF i # "down" THEN TRUE
  ELSE IF dState.closed > 0 \/ sockErr THEN n = 0 /\ e = "read error"
  ELSE IF sent > rdN[i] THEN n >= 1 /\ n <= sent - rdN[i] /\ e = Nil
  ELSE IF peerFin THEN n = 0 /\ e = EOF
  ELSE dState.deadline /\ n = 0 /\ e = "timeout"

\* What a Write to dst can answer: anything, but for NetCat's socket once it
\* is closed or shut for writing
CanWrite(i, w, e) ==
  (i = "up" /\ (dState.closed > 0 \/ dState.wrShut)) => (w = 0 /\ e = "write error")

\* lines 432-434, and 451-461 when nothing was read
CopyRead(i, n, e) ==
  /\ cpc[i] = "Read"
  /\ n <= MaxBytes - rdN[i]
  /\ CanRead(i, n, e)
  /\ rdN' = [rdN EXCEPT ![i] = @ + n]
  /\ nr' = [nr EXCEPT ![i] = n]
  /\ er' = [er EXCEPT ![i] = e]
  /\ nw' = [nw EXCEPT ![i] = 0]
  /\ ew' = [ew EXCEPT ![i] = Nil]
  /\ IF n > 0
       THEN /\ cpc' = [cpc EXCEPT ![i] = "Write"]
            /\ UNCHANGED <<err, logged>>
       ELSE IF e # Nil
         THEN CopyBreakOnRead(i, e)
         ELSE UNCHANGED <<cpc, err, logged>>
  /\ UNCHANGED <<dstW, written>>
  /\ UNCHANGED <<apiVars, dnsVars, udpVars, proxyVars, loopVars, echoVars, ncVars>>

\* lines 435-461 when something was read
CopyWrite(i, w, e) ==
  /\ cpc[i] = "Write"
  /\ w <= nr[i]
  /\ CanWrite(i, w, e)
  /\ nw' = [nw EXCEPT ![i] = w]
  /\ ew' = [ew EXCEPT ![i] = e]
  /\ dstW' = [dstW EXCEPT ![i] = @ \o Taken(Chunk(i), w)]
  /\ written' = [written EXCEPT ![i] = @ + w]
  /\ IF WriteErr(nr[i], w, e) # Nil
       THEN /\ err' = [err EXCEPT ![i] = WriteErr(nr[i], w, e)]
            /\ logged' = [logged EXCEPT ![i] =
                            IF e # Nil THEN @ \cup {<<"error", "write">>} ELSE @]
            /\ cpc' = [cpc EXCEPT ![i] = "returned"]
       ELSE IF er[i] # Nil
         THEN CopyBreakOnRead(i, er[i])
         ELSE /\ cpc' = [cpc EXCEPT ![i] = "Read"]
              /\ UNCHANGED <<err, logged>>
  /\ UNCHANGED <<rdN, nr, er>>
  /\ UNCHANGED <<apiVars, dnsVars, udpVars, proxyVars, loopVars, echoVars, ncVars>>

Copy(i) ==
  \/ \E n \in 0..MaxBytes, e \in ReadErrs : CopyRead(i, n, e)
  \/ \E w \in 0..MaxBytes, e \in WriteErrs : CopyWrite(i, w, e)

(***************************************************************************)
(* handleTCPEchoRequest (network.go:175-180)                               *)
(***************************************************************************)
InitEcho ==
  /\ epc = "idle"
  /\ econnClosed = 0

\* lines 190-197 and 176-177: the loop accepts a connection and starts its
\* handler, which calls Copy(conn, conn). Handlers share nothing: the model
\* follows one at a time.
EchoAccept ==
  /\ lpc["echo"] = "Accept"
  /\ listening["echo"]
  /\ epc \in {"idle", "returned"}
  /\ epc' = "Copy"
  /\ econnClosed' = 0
  /\ CopyStart("echo")
  /\ Accepted("echo")
  /\ UNCHANGED <<lpc, listening, errSeen, failedDials>>
  /\ UNCHANGED <<apiVars, dnsVars, udpVars, proxyVars, ncVars>>

\* lines 177-179: Copy has returned; the handler closes the connection
EchoClose ==
  /\ epc = "Copy"
  /\ cpc["echo"] = "returned"
  /\ econnClosed' = econnClosed + 1
  /\ epc' = "returned"
  /\ UNCHANGED <<apiVars, dnsVars, udpVars, proxyVars, loopVars, copyVars, ncVars>>

handleTCPEchoRequest ==
  \/ Copy("echo")
  \/ EchoClose

(***************************************************************************)
(* UDPEchoServer's loop and handleUDPEchoRequest (network.go:204-239). A   *)
(* datagram is its sender's address and its bytes; every iteration of the  *)
(* loop allocates its own buffer (line 222), so that a handler holds the   *)
(* bytes of its own datagram.                                              *)
(***************************************************************************)
Addrs == {"a1", "a2"}
Payloads == {"x", "y"}
Datagrams == [addr : Addrs, data : Payloads]

InitUDP ==
  /\ async = FALSE
  /\ uq = <<>>
  /\ urcvd = <<>>
  /\ uhandlers = {}
  /\ uwrites = <<>>
  /\ ubuf = [b \in 1..MaxAccepts |-> ""]

\* UDPEchoServer is called with async true; Start("udp", ok) is the call with
\* async false
StartAsync(ok) ==
  /\ \A t \in Servers : lpc[t] = "off"
  /\ lpc' = [lpc EXCEPT !["udp"] = IF StartsLoop(Listen(ok)) THEN "Accept" ELSE "nil"]
  /\ listening' = [listening EXCEPT !["udp"] = Listen(ok).listener # "nil"]
  /\ async' = TRUE
  /\ UNCHANGED <<accepts, spawned, errSeen, okAfterErr, failedDials>>
  /\ UNCHANGED <<uq, urcvd, uhandlers, uwrites, ubuf>>
  /\ UNCHANGED <<apiVars, dnsVars, proxyVars, echoVars, copyVars, ncVars>>

\* a client sends a datagram to the server's port
ClientSend(dg) ==
  /\ lpc["udp"] \in {"Accept", "Handle"}
  /\ listening["udp"]
  /\ Len(uq) + Len(urcvd) < MaxAccepts
  /\ uq' = Append(uq, dg)
  /\ UNCHANGED <<async, urcvd, uhandlers, uwrites, ubuf>>
  /\ UNCHANGED <<apiVars, dnsVars, proxyVars, loopVars, echoVars, copyVars, ncVars>>

RunsInlineNever(a) == FALSE

BufferShared(k) == 1

\* line 222: `buf := make([]byte, 2048)` is inside the loop, so the k-th
\* iteration reads into a buffer of its own, the k-th
BufferOf(k) == k

\* lines 230-234: whether the loop calls the handler itself
RunsInline(a) == ~a

\* lines 222-234: ReadFromUDP returns a datagram, and the handler is started
\* with buf[:size] and the sender's address: as a goroutine, or as a call
ReadFromUDP ==
  /\ lpc["udp"] = "Accept"
  /\ listening["udp"]
  /\ uq # <<>>
  /\ uq' = Tail(uq)
  /\ urcvd' = Append(urcvd, Head(uq))
  /\ ubuf' = [ubuf EXCEPT ![BufferOf(Len(urcvd) + 1)] = Head(uq).data]
  /\ Accepted("udp")
  /\ IF RunsInline(async)
       THEN /\ lpc' = [lpc EXCEPT !["udp"] = "Handle"]
            /\ UNCHANGED uhandlers
       ELSE /\ uhandlers' = uhandlers \cup {[k |-> Len(urcvd) + 1, addr |-> Head(uq).addr,
                                            b |-> BufferOf(Len(urcvd) + 1)]}
            /\ UNCHANGED lpc
  /\ UNCHANGED <<listening, errSeen, failedDials>>
  /\ UNCHANGED <<async, uwrites>>
  /\ UNCHANGED <<apiVars, dnsVars, proxyVars, echoVars, copyVars, ncVars>>

\* the datagram a handler sees: the address it was given, and the bytes
\* that the buffer it was given a slice of holds now
Seen(addr, b) == [addr |-> addr, data |-> ubuf[b]]

\* lines 205-206: the call conn.WriteToUDP(buf, addr) of the handler of the
\* k-th datagram; its result is only logged
WriteToUDP(k, dg) == [k |-> k, addr |-> dg.addr, data |-> dg.data]

\* lines 204-207 called at line 233: the loop is back at its top afterwards
HandleInline ==
  /\ lpc["udp"] = "Handle"
  /\ uwrites' = Append(uwrites, WriteToUDP(Len(urcvd),
                                 Seen(urcvd[Len(urcvd)].addr, BufferOf(Len(urcvd)))))
  /\ lpc' = [lpc EXCEPT !["udp"] = "Accept"]
  /\ UNCHANGED <<listening, accepts, spawned, errSeen, okAfterErr, failedDials>>
  /\ UNCHANGED <<async, uq, urcvd, uhandlers, ubuf>>
  /\ UNCHANGED <<apiVars, dnsVars, proxyVars, echoVars, copyVars, ncVars>>

\* lines 204-207 started at line 231
HandleAsync(h) ==
  /\ h \in uhandlers
  /\ uwrites' = Append(uwrites, WriteToUDP(h.k, Seen(h.addr, h.b)))
  /\ uhandlers' = uhandlers \ {h}
  /\ UNCHANGED <<async, uq, urcvd, ubuf>>
  /\ UNCHANGED <<apiVars, dnsVars, proxyVars, loopVars, echoVars, copyVars, ncVars>>

handleUDPEchoRequest ==
  \/ HandleInline
  \/ \E h \in uhandlers : HandleAsync(h)

(***************************************************************************)
(* The payload buffer: ChangeMaxPayloadSize (network.go:105-118),          *)
(* ValidatePayloadSize (574-584), GenerateRandomPayload (586-589),         *)
(* ReadFileForPayload (592-598) and GeneratePayload (602-615). A byte of   *)
(* the buffer is <<g, i>>: the i-th byte of the g-th pseudorandom filling. *)
(***************************************************************************)
\* the sizes a caller asks for, and the maxima a caller sets
Sizes == -1 .. MaxSize + 1

\* payloadFilePath: none, a file that can be read, a file that cannot
Paths == {"", "file", "missing"}
FileBytes == <<"f1", "f2">>

\* payload: the literal string
Literals == {"", "ab"}

\* []byte(payload), line 613
BytesOf(lit) == IF lit = "" THEN <<>> ELSE <<"a", "b">>

NoPayload == [file |-> "", size |-> 0, lit |-> "", max |-> 0, buf |-> <<>>,
              busy |-> FALSE, res |-> <<>>, panic |-> FALSE]

\* make([]byte, n) filled by rand.Read, lines 111-114
Filled(g, n) == [i \in 1..n |-> <<g, i>>]

\* MaxPayloadSize = 256 * KILOBYTE (line 59) and init() (99-102), scaled
InitPayload ==
  /\ MaxPayloadSize = MaxSize
  /\ Payload = Filled(0, MaxSize)
  /\ chg = "idle"
  /\ gen = 0
  /\ pret = NoPayload

\* lines 106-110: the new maximum is stored
ChangeMaxPayloadSize(n) ==
  /\ chg = "idle"
  /\ gen < MaxChanges
  /\ chg' = "make"
  /\ MaxPayloadSize' = IF n >= 0 THEN n ELSE 0
  /\ UNCHANGED <<Payload, gen, pret>>
  /\ UNCHANGED <<coreVars, runVars>>

\* lines 111-117: the buffer of the new size is made and filled
MakePayload ==
  /\ chg = "make"
  /\ chg' = "idle"
  /\ gen' = gen + 1
  /\ Payload' = Filled(gen + 1, MaxPayloadSize)
  /\ UNCHANGED <<MaxPayloadSize, pret>>
  /\ UNCHANGED <<coreVars, runVars>>

ValidatePayloadSizeNoMax(size, max) ==
  IF size < 0 THEN 0 ELSE size

\* lines 574-584: the value of *size after ValidatePayloadSize(&size)
ValidatePayloadSize(size, max) ==
  IF size > max /\ size > 0 THEN max
  ELSE IF size < 0 THEN 0
  ELSE size

\* lines 592-598: the file's bytes, or nil and an error
ReadFileForPayload(path) ==
  IF path = "file" THEN [data |-> FileBytes, err |-> FALSE]
  ELSE [data |-> <<>>, err |-> TRUE]

\* lines 602-615 with 586-589: the call, its result, and whether the slice
\* expression Payload[:payloadSize] of line 588 panics, which it does when
\* payloadSize exceeds the capacity of the buffer
GeneratePayload(path, size, lit) ==
  /\ LET n == ValidatePayloadSize(size, MaxPayloadSize)
         call == [file |-> path, size |-> size, lit |-> lit,
                  max |-> MaxPayloadSize, buf |-> Payload,
                  busy |-> chg # "idle", res |-> <<>>, panic |-> FALSE]
     IN pret' =
          IF path # ""
            THEN [call EXCEPT !.res = ReadFileForPayload(path).data]
          ELSE IF size > 0
            THEN IF n <= Len(Payload)
                   THEN [call EXCEPT !.res = SubSeq(Payload, 1, n)]
                   ELSE [call EXCEPT !.panic = TRUE]
          ELSE [call EXCEPT !.res = BytesOf(lit)]
  /\ UNCHANGED <<MaxPayloadSize, Payload, chg, gen>>
  /\ UNCHANGED <<coreVars, runVars>>

(***************************************************************************)
(* The REST API's registry of runs (src/rapi/restHandler.go):              *)
(* RESTRunHandler (141-285), Run (288-359), RESTStopHandler (384-395),     *)
(* StopByRunID (398-424), AddRun (455-462), RemoveRun (464-468).           *)
(***************************************************************************)
Reqs == 1..NumReqs

\* why RESTRunHandler returns before AddRun, if it does: lines 144-149,
\* 153-162, 186-196, 203-206
Rejections == {"none", "body read error", "json", "duration", "no url"}

\* the runid of a stop request: stop all, a run id, an id never given
RunIDs == -1 .. MaxRuns + 1

IdleReq == [pc |-> "idle", kind |-> "none", runid |-> 0, async |-> FALSE,
            why |-> "none", err |-> FALSE, ret |-> 0]

InitRuns ==
  /\ uiRunMapMutex = 0
  /\ id = 0
  /\ runs = {}
  /\ assigned = <<>>
  /\ aborted = [i \in 1..MaxRuns |-> 0]
  /\ rq = [r \in Reqs |-> IdleReq]

Free(r) == rq[r].pc \in {"idle", "rejected", "done"}

\* requests that will call AddRun
Adding == {r \in Reqs : rq[r].pc \in {"AddRun", "AddRunLocked"}}

\* uiRunMapMutex.Lock()
Lock(r, next) ==
  /\ uiRunMapMutex = 0
  /\ uiRunMapMutex' = r
  /\ rq' = [rq EXCEPT ![r].pc = next]
  /\ UNCHANGED <<id, runs, assigned, aborted>>
  /\ UNCHANGED <<coreVars, payVars>>

\* lines 141-220: a run request; why says which of the tests before AddRun
\* makes the handler reply with an error and return, a says async=on
RESTRunHandler(r, why, a) ==
  /\ Free(r)
  /\ id + Cardinality(Adding) < MaxRuns
  /\ rq' = [rq EXCEPT ![r] = [IdleReq EXCEPT
                !.kind = "run", !.async = a, !.why = why,
                !.pc = IF why = "none" THEN "AddRun" ELSE "rejected"]]
  /\ UNCHANGED <<uiRunMapMutex, id, runs, assigned, aborted>>
  /\ UNCHANGED <<coreVars, payVars>>

NextIDPostfix(i) == i

\* lines 457-458: id++; runid := id
NextID(i) == i + 1

\* line 456
AddRunLock(r) ==
  /\ rq[r].pc = "AddRun"
  /\ Lock(r, "AddRunLocked")

\* lines 457-461, and 222: the run is registered under a new id; then lines
\* 223-284: in async mode the reply is sent and Run is started as a
\* goroutine, else Run is called
AddRun(r) ==
  /\ rq[r].pc = "AddRunLocked"
  /\ id' = id + 1
  /\ runs' = runs \cup {NextID(id)}
  /\ assigned' = Append(assigned, NextID(id))
  /\ uiRunMapMutex' = 0
  /\ rq' = [rq EXCEPT ![r].pc = "Run", ![r].runid = NextID(id)]
  /\ UNCHANGED aborted
  /\ UNCHANGED <<coreVars, payVars>>

RemoveRunOnSuccess(e) == ~e

\* line 336: RemoveRun(ro.RunID) is called before err is tested at line 337
RemoveRunCalled(e) == TRUE

\* lines 291-335: the runner returns, with an error or without
RunnerReturns(r, e) ==
  /\ rq[r].pc = "Run"
  /\ rq' = [rq EXCEPT ![r].err = e,
                       ![r].pc = IF RemoveRunCalled(e) THEN "RemoveRun" ELSE "done"]
  /\ UNCHANGED <<uiRunMapMutex, id, runs, assigned, aborted>>
  /\ UNCHANGED <<coreVars, payVars>>

\* line 465
RemoveRunLock(r) ==
  /\ rq[r].pc = "RemoveRun"
  /\ Lock(r, "RemoveRunLocked")

\* lines 466-467, then 337-359
RemoveRun(r) ==
  /\ rq[r].pc = "RemoveRunLocked"
  /\ runs' = runs \ {rq[r].runid}
  /\ uiRunMapMutex' = 0
  /\ rq' = [rq EXCEPT ![r].pc = "done"]
  /\ UNCHANGED <<id, assigned, aborted>>
  /\ UNCHANGED <<coreVars, payVars>>

\* lines 384-388: a stop request with its runid
RESTStopHandler(r, runid) ==
  /\ Free(r)
  /\ rq' = [rq EXCEPT ![r] = [IdleReq EXCEPT
                !.kind = "stop", !.runid = runid, !.pc = "StopByRunID"]]
  /\ UNCHANGED <<uiRunMapMutex, id, runs, assigned, aborted>>
  /\ UNCHANGED <<coreVars, payVars>>

\* line 399
StopLock(r) ==
  /\ rq[r].pc = "StopByRunID"
  /\ Lock(r, "StopLocked")

KeepFound(rs, k) == rs

\* line 414: delete(runs, runid)
DeleteFound(rs, k) == rs \ {k}

\* lines 400-410: runid <= 0, every run is aborted and deleted
StopAll(r) ==
  /\ rq[r].pc = "StopLocked"
  /\ rq[r].runid <= 0
  /\ aborted' = [i \in 1..MaxRuns |-> IF i \in runs THEN aborted[i] + 1 ELSE aborted[i]]
  /\ runs' = {}
  /\ uiRunMapMutex' = 0
  /\ rq' = [rq EXCEPT ![r].pc = "done", ![r].ret = Cardinality(runs)]
  /\ UNCHANGED <<id, assigned>>
  /\ UNCHANGED <<coreVars, payVars>>

\* lines 412-415 and 420-422: runid > 0; the run is deleted if it is found
StopOne(r) ==
  /\ rq[r].pc = "StopLocked"
  /\ rq[r].runid > 0
  /\ IF rq[r].runid \in runs
       THEN /\ runs' = DeleteFound(runs, rq[r].runid)
            /\ rq' = [rq EXCEPT ![r].pc = "Abort"]
       ELSE /\ UNCHANGED runs
            /\ rq' = [rq EXCEPT ![r].pc = "done", ![r].ret = 0]
  /\ uiRunMapMutex' = 0
  /\ UNCHANGED <<id, assigned, aborted>>
  /\ UNCHANGED <<coreVars, payVars>>

\* lines 416-418: v.Abort(), after the Unlock; return 1
Abort(r) ==
  /\ rq[r].pc = "Abort"
  /\ aborted' = [aborted EXCEPT ![rq[r].runid] = @ + 1]
  /\ rq' = [rq EXCEPT ![r].pc = "done", ![r].ret = 1]
  /\ UNCHANGED <<uiRunMapMutex, id, runs, assigned>>
  /\ UNCHANGED <<coreVars, payVars>>

StopByRunID(r) == StopLock(r) \/ StopAll(r) \/ StopOne(r) \/ Abort(r)

Run(r) ==
  \/ \E e \in BOOLEAN : RunnerReturns(r, e)
  \/ RemoveRunLock(r)
  \/ RemoveRun(r)

(***************************************************************************)
(* NetCat (network.go:658-701) and UDPNetCat (704-730): one call. Copy     *)
(* "up" is Copy(d, in), Copy "down" is Copy(out, d). Over TCP the          *)
(* goroutine runs "up" and the call runs "down"; over UDP the goroutine    *)
(* runs "down" and the call runs "up".                                     *)
(***************************************************************************)
Protos == {"tcp", "udp"}
Streams == {"in", "out"}

\* the Copy the goroutine runs, and the one the call runs itself
Pump(p) == IF p = "tcp" THEN "up" ELSE "down"
Inline(p) == IF p = "tcp" THEN "down" ELSE "up"

InitNetCat ==
  /\ npc = "idle"
  /\ gpc = "none"
  /\ proto = "tcp"
  /\ stopOnEOF = FALSE
  /\ ncWg = 0
  /\ we = Nil
  /\ re = Nil
  /\ nres = Nil
  /\ waited = FALSE
  /\ dState = [closed |-> 0, wrShut |-> FALSE, deadline |-> FALSE]
  /\ ioClosed = [s \in Streams |-> 0]
  /\ sent = 0
  /\ peerFin = FALSE
  /\ sockErr = FALSE

\* lines 658-662 and 704-705: the call, with its arguments
NetCatCall(p, stop) ==
  /\ npc = "idle"
  /\ npc' = "Resolve"
  /\ proto' = p
  /\ stopOnEOF' = stop
  /\ UNCHANGED <<gpc, ncWg, we, re, nres, waited, ncSock>>
  /\ UNCHANGED <<apiVars, dnsVars, udpVars, proxyVars, loopVars, echoVars, copyVars>>

\* lines 663-666 and 706-709: the destination does not resolve
ResolveFails ==
  /\ npc = "Resolve"
  /\ npc' = "returned"
  /\ nres' = "resolve error"
  /\ UNCHANGED <<gpc, proto, stopOnEOF, ncWg, we, re, waited, ncSock>>
  /\ UNCHANGED <<apiVars, dnsVars, udpVars, proxyVars, loopVars, echoVars, copyVars>>

\* lines 663-666 and 706-709: the destination resolves
Resolved ==
  /\ npc = "Resolve"
  /\ npc' = "Dial"
  /\ UNCHANGED <<gpc, proto, stopOnEOF, ncWg, we, re, nres, waited, ncSock>>
  /\ UNCHANGED <<apiVars, dnsVars, udpVars, proxyVars, loopVars, echoVars, copyVars>>

\* lines 667-671 and 710-714: the dial fails
DialFails ==
  /\ npc = "Dial"
  /\ npc' = "returned"
  /\ nres' = "dial error"
  /\ UNCHANGED <<gpc, proto, stopOnEOF, ncWg, we, re, waited, ncSock>>
  /\ UNCHANGED <<apiVars, dnsVars, udpVars, proxyVars, loopVars, echoVars, copyVars>>

\* lines 667-681 and 710-723: the dial succeeds; wg.Add(1), the goroutine
\* is started, and the call enters its own Copy
Dialled ==
  /\ npc = "Dial"
  /\ npc' = "Copy"
  /\ ncWg' = ncWg + 1
  /\ gpc' = "start"
  /\ CopyStart(Inline(proto))
  /\ UNCHANGED <<proto, stopOnEOF, we, re, nres, waited, ncSock>>
  /\ UNCHANGED <<apiVars, dnsVars, udpVars, proxyVars, loopVars, echoVars>>

\* lines 676-677 and 719-720: the goroutine enters its Copy
PumpStart ==
  /\ gpc = "start"
  /\ gpc' = "Copy"
  /\ CopyStart(Pump(proto))
  /\ UNCHANGED <<npc, proto, stopOnEOF, ncWg, we, re, nres, waited, ncSock>>
  /\ UNCHANGED <<apiVars, dnsVars, udpVars, proxyVars, loopVars, echoVars>>

\* lines 677 and 720: the goroutine's Copy has returned, its error is stored
\* in the variable it shares with the call
PumpStore ==
  /\ gpc = "Copy"
  /\ cpc[Pump(proto)] = "returned"
  /\ IF proto = "tcp"
       THEN we' = err["up"] /\ gpc' = "CloseWrite" /\ UNCHANGED re
       ELSE re' = err["down"] /\ gpc' = "Done" /\ UNCHANGED we
  /\ UNCHANGED <<npc, proto, stopOnEOF, ncWg, nres, waited, ncSock>>
  /\ UNCHANGED <<apiVars, dnsVars, udpVars, proxyVars, loopVars, echoVars, copyVars>>

\* line 678: dst.CloseWrite()
PumpCloseWrite ==
  /\ gpc = "CloseWrite"
  /\ gpc' = "Done"
  /\ dState' = [dState EXCEPT !.wrShut = TRUE]
  /\ UNCHANGED <<npc, proto, stopOnEOF, ncWg, we, re, nres, waited, ioClosed, sent, peerFin, sockErr>>
  /\ UNCHANGED <<apiVars, dnsVars, udpVars, proxyVars, loopVars, echoVars, copyVars>>

\* lines 679 and 721: w.Done()
PumpDone ==
  /\ gpc = "Done"
  /\ gpc' = "returned"
  /\ ncWg' = ncWg - 1
  /\ UNCHANGED <<npc, proto, stopOnEOF, we, re, nres, waited, ncSock>>
  /\ UNCHANGED <<apiVars, dnsVars, udpVars, proxyVars, loopVars, echoVars, copyVars>>

SkipsWaitAlways(stop) == TRUE

\* line 683: whether the call goes on without wg.Wait()
SkipsWait(stop) == stop

\* lines 681-683: Copy(out, d) has returned; its error is re
AfterCopyOut ==
  /\ npc = "Copy"
  /\ proto = "tcp"
  /\ cpc["down"] = "returned"
  /\ re' = err["down"]
  /\ npc' = IF SkipsWait(stopOnEOF) THEN "Close" ELSE "Wait"
  /\ UNCHANGED <<gpc, proto, stopOnEOF, ncWg, we, nres, waited, ncSock>>
  /\ UNCHANGED <<apiVars, dnsVars, udpVars, proxyVars, loopVars, echoVars, copyVars>>

\* lines 684 and 725: wg.Wait()
NcWait ==
  /\ npc = "Wait"
  /\ ncWg = 0
  /\ waited' = TRUE
  /\ npc' = IF proto = "tcp" THEN "Close" ELSE "Return"
  /\ UNCHANGED <<gpc, proto, stopOnEOF, ncWg, we, re, nres, ncSock>>
  /\ UNCHANGED <<apiVars, dnsVars, udpVars, proxyVars, loopVars, echoVars, copyVars>>

\* line 687: d.Close()
CloseSocket ==
  /\ npc = "Close"
  /\ npc' = "CloseStreams"
  /\ dState' = [dState EXCEPT !.closed = @ + 1]
  /\ UNCHANGED <<gpc, proto, stopOnEOF, ncWg, we, re, nres, waited, ioClosed, sent, peerFin, sockErr>>
  /\ UNCHANGED <<apiVars, dnsVars, udpVars, proxyVars, loopVars, echoVars, copyVars>>

\* lines 688-693: in is closed if it implements io.Closer, and so is out
CloseStreams ==
  /\ npc = "CloseStreams"
  /\ npc' = "Return"
  /\ ioClosed' = [s \in Streams |-> ioClosed[s] + 1]
  /\ UNCHANGED <<gpc, proto, stopOnEOF, ncWg, we, re, nres, waited, dState, sent, peerFin, sockErr>>
  /\ UNCHANGED <<apiVars, dnsVars, udpVars, proxyVars, loopVars, echoVars, copyVars>>

\* The values a read of we by the call can yield. After wg.Wait() it is the
\* value the goroutine stored. Without it the read is not ordered with the
\* goroutine's store (a data race): the call may see the initial nil or the
\* stored value.
ReadWe == IF waited THEN {we} ELSE {Nil, we}

\* lines 694-700: return re, else we, else nil
ReturnTCP(seen) ==
  /\ npc = "Return"
  /\ proto = "tcp"
  /\ seen \in ReadWe
  /\ nres' = IF re # Nil THEN re ELSE seen
  /\ npc' = "returned"
  /\ UNCHANGED <<gpc, proto, stopOnEOF, ncWg, we, re, waited, ncSock>>
  /\ UNCHANGED <<apiVars, dnsVars, udpVars, proxyVars, loopVars, echoVars, copyVars>>

\* line 723: Copy(d, in) has returned; its error is we
AfterCopyIn ==
  /\ npc = "Copy"
  /\ proto = "udp"
  /\ cpc["up"] = "returned"
  /\ we' = err["up"]
  /\ npc' = "SetReadDeadline"
  /\ UNCHANGED <<gpc, proto, stopOnEOF, ncWg, re, nres, waited, ncSock>>
  /\ UNCHANGED <<apiVars, dnsVars, udpVars, proxyVars, loopVars, echoVars, copyVars>>

DeadlineNotSet(d) == d

\* line 724: the state of d after d.SetReadDeadline(now + 400ms)
DeadlineSet(d) == [d EXCEPT !.deadline = TRUE]

\* line 724
SetReadDeadline ==
  /\ npc = "SetReadDeadline"
  /\ npc' = "Wait"
  /\ dState' = DeadlineSet(dState)
  /\ UNCHANGED <<gpc, proto, stopOnEOF, ncWg, we, re, nres, waited, ioClosed, sent, peerFin, sockErr>>
  /\ UNCHANGED <<apiVars, dnsVars, udpVars, proxyVars, loopVars, echoVars, copyVars>>

\* line 727: return err, the error of the dial, which is nil here
ReturnUDP ==
  /\ npc = "Return"
  /\ proto = "udp"
  /\ nres' = Nil
  /\ npc' = "returned"
  /\ UNCHANGED <<gpc, proto, stopOnEOF, ncWg, we, re, waited, ncSock>>
  /\ UNCHANGED <<apiVars, dnsVars, udpVars, proxyVars, loopVars, echoVars, copyVars>>

\* What arrives at the socket is seen by the program only through a Read of
\* d, so the peer's steps are taken while Copy(out, d) is at its Read.
SocketObserved == cpc["down"] = "Read"

\* the peer sends a byte or a datagram to the socket
NcPeerSend ==
  /\ SocketObserved
  /\ sent < MaxBytes
  /\ ~peerFin
  /\ sent' = sent + 1
  /\ UNCHANGED <<ncCall, dState, ioClosed, peerFin, sockErr>>
  /\ UNCHANGED <<apiVars, dnsVars, udpVars, proxyVars, loopVars, echoVars, copyVars>>

\* the peer ends its stream: a TCP connection only
NcPeerEnd ==
  /\ SocketObserved
  /\ proto = "tcp"
  /\ ~peerFin
  /\ peerFin' = TRUE
  /\ UNCHANGED <<ncCall, dState, ioClosed, sent, sockErr>>
  /\ UNCHANGED <<apiVars, dnsVars, udpVars, proxyVars, loopVars, echoVars, copyVars>>

\* the socket fails: a reset, an unreachable destination
NcSockFails ==
  /\ SocketObserved
  /\ ~sockErr
  /\ sockErr' = TRUE
  /\ UNCHANGED <<ncCall, dState, ioClosed, sent, peerFin>>
  /\ UNCHANGED <<apiVars, dnsVars, udpVars, proxyVars, loopVars, echoVars, copyVars>>

\* the steps of UDPNetCat after its arguments are given, and of its goroutine
UDPNetCat ==
  \/ ResolveFails \/ Resolved \/ DialFails \/ Dialled
  \/ AfterCopyIn \/ SetReadDeadline \/ NcWait \/ ReturnUDP
UDPNetCatPump == PumpStart \/ PumpStore \/ PumpDone

\* the steps of NetCat after its arguments are given, and of its goroutine
NetCat ==
  \/ UDPNetCat
  \/ AfterCopyOut \/ CloseSocket \/ CloseStreams
  \/ \E seen \in ReadErrs \cup WriteErrs \cup {ErrShortWrite} : ReturnTCP(seen)
NetCatPump == UDPNetCatPump \/ PumpCloseWrite

(***************************************************************************)
(* The relay proxy: one accepted connection, handleProxyRequest and its    *)
(* two transfers (network.go:484-527).                                     *)
(***************************************************************************)
Conns == {"conn", "d"}
Dirs == {"up", "down"}
Kinds == {"tcp", "unix"}

\* go transfer(&wg, d, conn) is "up"; transfer(&wg, conn, d) is "down"
Src(X) == IF X = "up" THEN "conn" ELSE "d"
Dst(X) == IF X = "up" THEN "d" ELSE "conn"
Opp(X) == IF X = "up" THEN "down" ELSE "up"

\* the stream of a peer that has sent n bytes
Stream(n) == [i \in 1..n |-> i]

IsPrefix(s, t) == Len(s) <= Len(t) /\ SubSeq(t, 1, Len(s)) = s

Copying(X) == tpc[X] \in {"Read", "Write"}

InitProxy ==
  /\ hpc = "idle"
  /\ kind = [c \in Conns |-> "none"]
  /\ closed = [c \in Conns |-> 0]
  /\ rdShut = [c \in Conns |-> FALSE]
  /\ wrShut = [c \in Conns |-> FALSE]
  /\ wg = 0
  /\ tpc = [X \in Dirs |-> "none"]
  /\ done = [X \in Dirs |-> 0]
  /\ endedBy = [X \in Dirs |-> "none"]
  /\ buf = [X \in Dirs |-> <<>>]
  /\ inQ = [c \in Conns |-> <<>>]
  /\ out = [c \in Conns |-> <<>>]
  /\ sentN = [c \in Conns |-> 0]
  /\ peerEOF = [c \in Conns |-> FALSE]
  /\ late = {}

\* lines 536-544: Proxy's accept loop hands the accepted connection to a new
\* handler and is back at Accept. Handlers share nothing: the model follows
\* one at a time, the next one once the previous one has returned.
Accept(k) ==
  /\ lpc["proxy"] = "Accept"
  /\ listening["proxy"]
  /\ hpc \in {"idle", "returned"}
  /\ hpc' = "Dial"
  /\ kind' = [c \in Conns |-> IF c = "conn" THEN k ELSE "none"]
  /\ closed' = [c \in Conns |-> 0]
  /\ rdShut' = [c \in Conns |-> FALSE]
  /\ wrShut' = [c \in Conns |-> FALSE]
  /\ wg' = 0
  /\ tpc' = [X \in Dirs |-> "none"]
  /\ done' = [X \in Dirs |-> 0]
  /\ endedBy' = [X \in Dirs |-> "none"]
  /\ buf' = [X \in Dirs |-> <<>>]
  /\ inQ' = [c \in Conns |-> <<>>]
  /\ out' = [c \in Conns |-> <<>>]
  /\ sentN' = [c \in Conns |-> 0]
  /\ peerEOF' = [c \in Conns |-> FALSE]
  /\ late' = {}
  /\ Accepted("proxy")
  /\ UNCHANGED <<lpc, listening, errSeen, failedDials>>
  /\ UNCHANGED <<apiVars, dnsVars, ioVars>>

\* lines 508-512: the dial, which a nil destination skips with an error
Dial(destNil, ok, k) ==
  /\ hpc = "Dial"
  /\ IF ~destNil /\ ok
       THEN /\ kind' = [kind EXCEPT !["d"] = k]
            /\ hpc' = "Add"
       ELSE /\ kind' = kind
            /\ hpc' = "ErrClose"
  /\ UNCHANGED <<closed, rdShut, wrShut, wg, tpc, done, endedBy, buf, proxyNet>>
  /\ UNCHANGED <<apiVars, dnsVars, loopVars, ioVars>>

\* a mutant of ErrClose: the handler returns and leaves conn open
ErrCloseLeak ==
  /\ hpc = "ErrClose"
  /\ hpc' = "returned"
  /\ failedDials' = failedDials + 1
  /\ UNCHANGED <<kind, closed, rdShut, wrShut, wg, tpc, done, endedBy, buf, proxyNet>>
  /\ UNCHANGED <<lpc, listening, accepts, spawned, errSeen, okAfterErr>>
  /\ UNCHANGED <<apiVars, dnsVars, ioVars>>

\* lines 513-517
ErrClose ==
  /\ hpc = "ErrClose"
  /\ closed' = [closed EXCEPT !["conn"] = @ + 1]
  /\ hpc' = "returned"
  /\ UNCHANGED <<kind, rdShut, wrShut, wg, tpc, done, endedBy, buf, proxyNet>>
  /\ failedDials' = failedDials + 1
  /\ UNCHANGED <<lpc, listening, accepts, spawned, errSeen, okAfterErr>>
  /\ UNCHANGED <<apiVars, dnsVars, ioVars>>

\* lines 518-521: wg.Add(2), the goroutine, and the call of the inline transfer
Add ==
  /\ hpc = "Add"
  /\ wg' = wg + 2
  /\ tpc' = [X \in Dirs |-> "Read"]
  /\ hpc' = "transfer"
  /\ UNCHANGED <<kind, closed, rdShut, wrShut, done, endedBy, buf, proxyNet>>
  /\ UNCHANGED <<apiVars, dnsVars, loopVars, ioVars>>

\* a mutant of Wait: the barrier opens after one completion
WaitOne ==
  /\ hpc = "Wait"
  /\ wg <= 1
  /\ hpc' = "CloseD"
  /\ UNCHANGED <<kind, closed, rdShut, wrShut, wg, tpc, done, endedBy, buf, proxyNet>>
  /\ UNCHANGED <<apiVars, dnsVars, loopVars, ioVars>>

\* line 522
Wait ==
  /\ hpc = "Wait"
  /\ wg = 0
  /\ hpc' = "CloseD"
  /\ UNCHANGED <<kind, closed, rdShut, wrShut, wg, tpc, done, endedBy, buf, proxyNet>>
  /\ UNCHANGED <<apiVars, dnsVars, loopVars, ioVars>>

\* line 525
CloseD ==
  /\ hpc = "CloseD"
  /\ closed' = [closed EXCEPT !["d"] = @ + 1]
  /\ hpc' = "CloseConn"
  /\ UNCHANGED <<kind, rdShut, wrShut, wg, tpc, done, endedBy, buf, proxyNet>>
  /\ UNCHANGED <<apiVars, dnsVars, loopVars, ioVars>>

\* line 526
CloseConn ==
  /\ hpc = "CloseConn"
  /\ closed' = [closed EXCEPT !["conn"] = @ + 1]
  /\ hpc' = "returned"
  /\ UNCHANGED <<kind, rdShut, wrShut, wg, tpc, done, endedBy, buf, proxyNet>>
  /\ UNCHANGED <<apiVars, dnsVars, loopVars, ioVars>>

\* the copy of direction X ends
EndCopy(X, why) ==
  /\ endedBy' = [endedBy EXCEPT ![X] = why]
  /\ tpc' = [tpc EXCEPT ![X] = "CloseRead"]
  /\ buf' = [buf EXCEPT ![X] = <<>>]

\* line 485, io.Copy: a Read of src. It fails on a connection shut for
\* reading or closed, and may fail at any time (reset, timeout); otherwise it
\* takes what has arrived (the buffer of io.Copy is 32 KB), reports the end
\* of the peer's stream, or blocks.
Read(X, fails) ==
  /\ tpc[X] = "Read"
  /\ IF fails \/ rdShut[Src(X)] \/ closed[Src(X)] > 0
       THEN EndCopy(X, "read error") /\ inQ' = inQ
       ELSE IF inQ[Src(X)] # <<>>
         THEN /\ buf' = [buf EXCEPT ![X] = inQ[Src(X)]]
              /\ inQ' = [inQ EXCEPT ![Src(X)] = <<>>]
              /\ tpc' = [tpc EXCEPT ![X] = "Write"]
              /\ endedBy' = endedBy
         ELSE /\ peerEOF[Src(X)]
              /\ EndCopy(X, "EOF")
              /\ inQ' = inQ
  /\ UNCHANGED <<hpc, kind, closed, rdShut, wrShut, wg, done>>
  /\ UNCHANGED <<out, sentN, peerEOF, late>>
  /\ UNCHANGED <<apiVars, dnsVars, loopVars, ioVars>>

\* line 485, io.Copy: the Write to dst of what was read. It fails on a
\* connection shut for writing or closed, and may fail at any time.
Write(X, fails) ==
  /\ tpc[X] = "Write"
  /\ IF fails \/ wrShut[Dst(X)] \/ closed[Dst(X)] > 0
       THEN EndCopy(X, "write error") /\ out' = out
       ELSE /\ out' = [out EXCEPT ![Dst(X)] = @ \o buf[X]]
            /\ buf' = [buf EXCEPT ![X] = <<>>]
            /\ tpc' = [tpc EXCEPT ![X] = "Read"]
            /\ endedBy' = endedBy
  /\ UNCHANGED <<hpc, kind, closed, rdShut, wrShut, wg, done>>
  /\ UNCHANGED <<inQ, sentN, peerEOF, late>>
  /\ UNCHANGED <<apiVars, dnsVars, loopVars, ioVars>>

\* lines 487-493
CloseRead(X) ==
  /\ tpc[X] = "CloseRead"
  /\ rdShut' = IF kind[Src(X)] = "tcp"
                 THEN [rdShut EXCEPT ![Src(X)] = TRUE] ELSE rdShut
  /\ tpc' = [tpc EXCEPT ![X] = "CloseWrite"]
  /\ UNCHANGED <<hpc, kind, closed, wrShut, wg, done, endedBy, buf, proxyNet>>
  /\ UNCHANGED <<apiVars, dnsVars, loopVars, ioVars>>

\* a mutant of CloseWrite: the write side of the source is shut instead
CloseWriteOnSrc(X) ==
  /\ tpc[X] = "CloseWrite"
  /\ wrShut' = IF kind[Src(X)] = "tcp"
                 THEN [wrShut EXCEPT ![Src(X)] = TRUE] ELSE wrShut
  /\ tpc' = [tpc EXCEPT ![X] = "Done"]
  /\ UNCHANGED <<hpc, kind, closed, rdShut, wg, done, endedBy, buf, proxyNet>>
  /\ UNCHANGED <<apiVars, dnsVars, loopVars, ioVars>>

\* lines 494-500
CloseWrite(X) ==
  /\ tpc[X] = "CloseWrite"
  /\ wrShut' = IF kind[Dst(X)] = "tcp"
                 THEN [wrShut EXCEPT ![Dst(X)] = TRUE] ELSE wrShut
  /\ tpc' = [tpc EXCEPT ![X] = "Done"]
  /\ UNCHANGED <<hpc, kind, closed, rdShut, wg, done, endedBy, buf, proxyNet>>
  /\ UNCHANGED <<apiVars, dnsVars, loopVars, ioVars>>

\* line 501, and for the inline transfer the return to line 522
Done(X) ==
  /\ tpc[X] = "Done"
  /\ wg > 0
  /\ wg' = wg - 1
  /\ done' = [done EXCEPT ![X] = @ + 1]
  /\ tpc' = [tpc EXCEPT ![X] = "returned"]
  /\ hpc' = IF X = "down" THEN "Wait" ELSE hpc
  /\ UNCHANGED <<kind, closed, rdShut, wrShut, endedBy, buf, proxyNet>>
  /\ UNCHANGED <<apiVars, dnsVars, loopVars, ioVars>>

\* the peer of connection c can still act on it
PeerUp(c) == kind[c] # "none" /\ closed[c] = 0

PeerSend(c) ==
  /\ PeerUp(c)
  /\ ~peerEOF[c]
  /\ sentN[c] < MaxBytes
  /\ sentN' = [sentN EXCEPT ![c] = @ + 1]
  /\ inQ' = [inQ EXCEPT ![c] = Append(@, sentN[c] + 1)]
  /\ late' = IF tpc[IF c = "conn" THEN "down" ELSE "up"] \in {"Done", "returned"}
               THEN late \cup {c} ELSE late
  /\ UNCHANGED <<proxyRelay, out, peerEOF>>
  /\ UNCHANGED <<apiVars, dnsVars, loopVars, ioVars>>

PeerEnd(c) ==
  /\ PeerUp(c)
  /\ ~peerEOF[c]
  /\ peerEOF' = [peerEOF EXCEPT ![c] = TRUE]
  /\ UNCHANGED <<proxyRelay, inQ, out, sentN, late>>
  /\ UNCHANGED <<apiVars, dnsVars, loopVars, ioVars>>

handleProxyRequest ==
  \/ \E destNil, ok \in BOOLEAN, k \in Kinds : Dial(destNil, ok, k)
  \/ ErrClose
  \/ Add
  \/ Wait
  \/ CloseD
  \/ CloseConn

transfer(X) ==
  \/ \E fails \in BOOLEAN : Read(X, fails)
  \/ \E fails \in BOOLEAN : Write(X, fails)
  \/ CloseRead(X)
  \/ CloseWrite(X)
  \/ Done(X)

Peer(c) ==
  \/ PeerSend(c)
  \/ PeerEnd(c)

NextProxy ==
  \/ \E ok \in BOOLEAN : Start("proxy", ok)
  \/ hpc = "idle" /\ \E k \in Kinds : Accept(k)
  \/ handleProxyRequest
  \/ \E X \in Dirs : transfer(X)
  \/ \E c \in Conns : Peer(c)

\* the resolver with the dns-method flag left at its default
Next ==
  \/ /\ calls < MaxCalls
     /\ \E p \in Procs, h \in HostInputs, portOK \in BOOLEAN :
          ResolveByProto(p, h, portOK, DefaultMethod)
  \/ /\ calls < MaxCalls
     /\ \E p \in Procs : ClearResolveCacheLock(p)
  \/ Step

\* the resolver with the dns-method flag set to any value between calls
NextFlags ==
  \/ /\ calls < MaxFlagCalls
     /\ \E p \in Procs, h \in HostInputs, portOK \in BOOLEAN, m \in Methods :
          ResolveByProto(p, h, portOK, m)
  \/ /\ calls < MaxFlagCalls
     /\ \E p \in Procs : ClearResolveCacheLock(p)
  \/ Step
  \/ StepRR

Init == InitDNS /\ InitProxy /\ InitLoops /\ InitEcho /\ InitCopy /\ InitNetCat /\ InitUDP /\ InitPayload /\ InitRuns

Spec == Init /\ [][Next]_vars

SpecFlags == Init /\ [][NextFlags]_vars

\* The resolver of a program that has run long: the behaviours start at an
\* entry whose counter is about to wrap. passes, a count that has no bound,
\* is counted from the start of the behaviour here.
InitWrap ==
  /\ WrapCache /\ InitCallers
  /\ InitProxy /\ InitLoops /\ InitEcho /\ InitCopy /\ InitNetCat /\ InitUDP
  /\ InitPayload /\ InitRuns

WrapSpec == InitWrap /\ [][Next]_vars

\* one proxied session. The goroutine of the handler is scheduled while it
\* can take a step; nothing is asked of the peers.
ProxySpec ==
  /\ Init
  /\ [][NextProxy]_vars
  /\ WF_vars(handleProxyRequest)

\* Copy as the TCP echo server runs it, over every reader and writer
NextCopy ==
  \/ \E ok \in BOOLEAN : Start("echo", ok)
  \/ accepts["echo"] < MaxAccepts /\ EchoAccept
  \/ handleTCPEchoRequest

CopySpec == Init /\ [][NextCopy]_vars

\* the server loops. A proxied session's peers send nothing here: what a
\* session relays is the subject of ProxySpec.
NextServer ==
  \/ \E s \in Servers, ok \in BOOLEAN : Start(s, ok)
  \/ \E s \in Servers : AcceptErr(s)
  \/ \E s \in Servers : CloseListener(s)
  \/ accepts["echo"] < MaxAccepts /\ EchoAccept
  \/ handleTCPEchoRequest
  \/ accepts["proxy"] < MaxAccepts /\ \E k \in Kinds : Accept(k)
  \/ handleProxyRequest
  \/ \E X \in Dirs, fails \in BOOLEAN : Read(X, fails)
  \/ \E X \in Dirs : CloseRead(X) \/ CloseWrite(X) \/ Done(X)
  \/ \E c \in Conns : PeerEnd(c)
  \/ \E ok \in BOOLEAN : StartAsync(ok)
  \/ \E dg \in Datagrams : ClientSend(dg)
  \/ ReadFromUDP
  \/ handleUDPEchoRequest

ServerSpec == Init /\ [][NextServer]_vars

\* One NetCat call: the call, its goroutine, the two Copy calls, the peer.
NextNetCat ==
  \/ \E p \in Protos, stop \in BOOLEAN : NetCatCall(p, stop)
  \/ NetCat
  \/ NetCatPump
  \/ Copy("up")
  \/ Copy("down")
  \/ NcPeerSend
  \/ NcPeerEnd
  \/ NcSockFails

NetCatSpec == Init /\ [][NextNetCat]_vars

\* Calls of GeneratePayload between and during calls of ChangeMaxPayloadSize.
NextPayload ==
  \/ \E n \in Sizes : ChangeMaxPayloadSize(n)
  \/ MakePayload
  \/ \E path \in Paths, size \in Sizes, lit \in Literals : GeneratePayload(path, size, lit)

PayloadSpec == Init /\ [][NextPayload]_vars

\* Run and stop requests served concurrently.
NextRuns ==
  \/ \E r \in Reqs, why \in Rejections, a \in BOOLEAN : RESTRunHandler(r, why, a)
  \/ \E r \in Reqs : AddRunLock(r) \/ AddRun(r)
  \/ \E r \in Reqs : Run(r)
  \/ \E r \in Reqs, runid \in RunIDs : RESTStopHandler(r, runid)
  \/ \E r \in Reqs : StopByRunID(r)

\* A request is scheduled, and a goroutine that waits for the mutex gets it:
\* sync.Mutex hands the lock to a waiter that has waited long.
RunsSpec ==
  /\ Init
  /\ [][NextRuns]_vars
  /\ \A r \in Reqs : SF_vars(RemoveRunLock(r)) /\ WF_vars(RemoveRun(r))
  /\ \A r \in Reqs : WF_vars(AddRun(r)) /\ WF_vars(StopAll(r) \/ StopOne(r))

\* One UDPNetCat call.
NextUDPNetCat ==
  \/ \E stop \in BOOLEAN : NetCatCall("udp", stop)
  \/ UDPNetCat
  \/ UDPNetCatPump
  \/ Copy("up")
  \/ Copy("down")
  \/ NcPeerSend
  \/ NcSockFails

\* The call and its goroutine are scheduled, a Write to out returns, and a
\* Read of the socket returns when CanRead lets it.
UDPNetCatSpec ==
  /\ Init
  /\ [][NextUDPNetCat]_vars
  /\ WF_vars(UDPNetCat)
  /\ WF_vars(UDPNetCatPump)
  /\ WF_vars(Copy("down"))

\* the steps of transfer(X) whose I/O call does not fail by itself: a Read
\* that finds data, the end of the stream or a connection shut down, a Write,
\* and the half-closes and wg.Done() that follow
TransferRuns(X) ==
  \/ Read(X, FALSE)
  \/ Write(X, FALSE)
  \/ CloseRead(X)
  \/ CloseWrite(X)
  \/ Done(X)

\* the destination has been told that no more bytes will come
SeesEOF(c) == wrShut[c] \/ closed[c] > 0

\* the destination ends its stream on the end of the stream it reads, as
\* handleTCPEchoRequest does when its Copy returns
DestEnds == SeesEOF("d") /\ PeerEnd("d")

\* One proxied session whose goroutines are scheduled, whose I/O calls return
\* when they can, whose client ends its stream, and whose destination ends
\* its stream once it is told of the end of the client's.
ProxyLiveSpec ==
  /\ Init
  /\ [][NextProxy]_vars
  /\ WF_vars(handleProxyRequest)
  /\ \A X \in Dirs : WF_vars(TransferRuns(X))
  /\ WF_vars(PeerEnd("conn"))
  /\ WF_vars(DestEnds)

(***************************************************************************)
(* Steps and returns, as the properties below speak of them.               *)
(***************************************************************************)
\* the step is taken by goroutine p
StepOf(p) == pc'[p] # pc[p]

\* the dns-method of the call that p's step belongs to
MethodIn(p) == IF pc[p] = "idle" THEN dnsMethod'[p] ELSE dnsMethod[p]

\* p re-acquires the lock at line 391
RecheckBy(p) == pc[p] = "checkCache" /\ site[p] = 2 /\ StepOf(p)

\* p installs its lookup result, lines 396-400
InstallBy(p) == pc[p] = "miss" /\ site[p] = 2 /\ StepOf(p)

\* the step just taken returned an address chosen under the lock
ServedUnderLock ==
  \/ ret.line \in {377, 393}
  \/ ret.line = 415 /\ ret.method = "cached-rr" /\ ret.n > 1

\* C1: under cached-rr, the k-th resolution served under the lock from an
\* entry of N >= 2 addresses returns the address at index (k-1) mod N of the
\* installed list, however many callers raced to install it.
C1_CachedRoundRobin ==
  ServedUnderLock =>
    /\ Len(dnsAddrs) >= 2
    /\ passes >= 1
    /\ ret.ip = At(dnsAddrs, (passes - 1) % Len(dnsAddrs))

\* the third resolution of a two address entry is back at index 0
C1_Witness ==
  /\ ServedUnderLock
  /\ Len(dnsAddrs) = 2
  /\ passes = 3
  /\ ret.ip = At(dnsAddrs, 0)

C3_NoLockAcrossLookup ==
  \A p \in Procs : pc[p] \in {"LookupIP", "idle"} => dnsMutex # p

\* a cached-rr caller is inside LookupIP after its miss, the lock free
C3_Witness ==
  \E p \in Procs :
    /\ pc[p] = "LookupIP"
    /\ dnsMethod[p] = "cached-rr"
    /\ dnsMutex = 0

\* C4: the next cached-rr resolution of the host that was cached when
\* ClearResolveCache ran is never served from a list looked up before the
\* clear.
C4_FreshAfterClear ==
  [][\A p \in Procs :
       (isNext[p] /\ pc[p] = "checkCache" /\ pc'[p] = "ccLoad") => ~dnsStale
    ]_vars

\* the literal IP hosts, and the IP each one denotes
LiteralArgs == { <<"127.0.0.1">>, <<"::1">>, <<"[", "::1", "]">> }
LiteralIPOf(a) == IF a = <<"127.0.0.1">> THEN "127.0.0.1" ELSE "::1"

\* C5: a call with a literal IP host and a resolvable port returns that IP
\* from line 369 in the step that starts it, under every dns-method: no
\* lookup, no lock, and host, list and counter of the cache as they were.
C5_LiteralBypass ==
  [][(ret'.who # 0 /\ ret'.arg \in LiteralArgs /\ ret'.line # 363) =>
       /\ ret'.line = 369
       /\ ret'.ip = LiteralIPOf(ret'.arg)
       /\ ret'.err = NoErr
       /\ pc[ret'.who] = "idle"
       /\ UNCHANGED dnsShared
    ]_vars

\* "[::1]" was resolved to ::1 with the flag at rr
C5_Witness ==
  /\ ret.line = 369
  /\ ret.arg = <<"[", "::1", "]">>
  /\ ret.method = "rr"
  /\ ret.ip = "::1"

NotCached == {"rr", "rnd", "first"}

ReturnsOther(p) ==
  /\ ret'.who = p
  /\ ret'.err = NoErr
  /\ pc[p] # "idle"
  /\ MethodIn(p) = "cached-rr"
  /\ host[p] # dnsHost

\* C7, as stated: such a call leaves the cache holding its host, exactly
\* its lookup result and counter 1, and returned index 0, for every
\* non-empty lookup result.
C7_Orig ==
  [][\A p \in Procs :
       ReturnsOther(p) =>
          /\ dnsHost' = host[p]
          /\ Len(dnsAddrs') = ret'.n
          /\ pc[p] = "miss" => dnsAddrs' = addrs[p]
          /\ ret'.ip = At(dnsAddrs', 0)
          /\ dnsRoundRobin' = U32(1)
    ]_vars

\* C7, amended: for a lookup result of two or more addresses the entry is
\* replaced by the host, exactly that result and counter 1, and index 0 is
\* returned; for a single address the cache is left as it was.
C7_Replace ==
  [][\A p \in Procs :
       ReturnsOther(p) =>
          IF ret'.n >= 2
            THEN /\ dnsHost' = host[p]
                 /\ dnsAddrs' = addrs[p]
                 /\ dnsRoundRobin' = U32(1)
                 /\ ret'.ip = At(addrs[p], 0)
            ELSE /\ ret'.n = 1
                 /\ UNCHANGED <<dnsHost, dnsAddrs, dnsRoundRobin>>
    ]_vars

\* the entry of host "a" was replaced by one of the empty host: an entry of
\* the empty host cannot be installed over an empty cache
C7_Witness ==
  /\ ret.line = 415
  /\ ret.n >= 2
  /\ ret.arg = <<>>
  /\ dnsHost = <<>>
  /\ Len(dnsAddrs) = ret.n
  /\ ret.ip = At(dnsAddrs, 0)
  /\ dnsRoundRobin = U32(1)

\* C8: a lookup that answers zero addresses and no error makes the call
\* return a lookup error and a nil address.
C8_EmptyListIsError ==
  [][\A p \in Procs :
       (pc[p] = "LookupIP" /\ addrs'[p] = <<>>) =>
          /\ ret'.who = p
          /\ ret'.err = "lookup"
          /\ ret'.ip = NilIP
    ]_vars

\* a destination connection was opened: the session relays
Dialed == kind["d"] # "none"

BothDone == \A X \in Dirs : tpc[X] = "returned"

ClosedOnce == \A c \in Conns : closed[c] = 1

\* what C9 says of every state of a session
BarrierOfTwo ==
  /\ \A c \in Conns : closed[c] <= 1
  /\ \A X \in Dirs : done[X] = (IF tpc[X] = "returned" THEN 1 ELSE 0)
  /\ tpc["up"] # "none" => wg = 2 - (done["up"] + done["down"])
  /\ (Dialed /\ \E c \in Conns : closed[c] > 0) => BothDone
  /\ (Dialed /\ hpc = "returned") => ClosedOnce

\* C9: in a relaying session no connection is closed before both transfers
\* have returned, the WaitGroup counts two completions, one wg.Done() per
\* direction, and once both transfers have returned both connections get
\* closed, each exactly once.
C9_CloseAfterBoth ==
  /\ []BarrierOfTwo
  /\ BothDone ~> ClosedOnce

\* the handler has returned from a session that relayed bytes both ways
C9_Witness ==
  /\ Dialed
  /\ hpc = "returned"
  /\ BothDone
  /\ ClosedOnce
  /\ wg = 0
  /\ out["d"] # <<>>
  /\ out["conn"] # <<>>

\* the transfer of direction X is past its copy and takes a step
HalfCloseStep(X) == tpc[X] \in {"CloseRead", "CloseWrite", "Done"} /\ tpc'[X] # tpc[X]

AllTCP == \A c \in Conns : kind[c] = "tcp"

\* what the relay has written is a prefix of the peer's stream, and all of
\* it when the copy ended with the end of that stream
Delivered(X) ==
  /\ IsPrefix(out[Dst(X)], Stream(sentN[Src(X)]))
  /\ endedBy[X] = "EOF" => out[Dst(X)] = Stream(sentN[Src(X)])

\* C10: in a TCP session the steps of a transfer after its copy has ended
\* call CloseRead on its source and CloseWrite on its destination and
\* nothing else: no connection is closed, no byte is lost and the opposite
\* transfer is left where it is; while that one copies, its own source stays
\* readable and its own destination writable, and it delivers its source's
\* stream in order, whole if that stream ends cleanly.
C10_HalfCloseOneDirection ==
  [][AllTCP =>
       /\ \A X \in Dirs :
            HalfCloseStep(X) =>
              /\ closed' = closed
              /\ rdShut' = IF tpc[X] = "CloseRead"
                             THEN [rdShut EXCEPT ![Src(X)] = TRUE] ELSE rdShut
              /\ wrShut' = IF tpc[X] = "CloseWrite"
                             THEN [wrShut EXCEPT ![Dst(X)] = TRUE] ELSE wrShut
              /\ tpc'[Opp(X)] = tpc[Opp(X)]
              /\ UNCHANGED <<buf, inQ, out>>
       /\ \A Y \in Dirs :
            /\ Copying(Y)' =>
                 /\ ~rdShut'[Src(Y)]
                 /\ ~wrShut'[Dst(Y)]
                 /\ \A c \in Conns : closed'[c] = 0
            /\ Delivered(Y)'
    ]_vars

\* after the client-to-destination direction ended and half-closed, the
\* destination sent a byte, and the relay delivered the destination's whole
\* stream to the client before any connection was closed
C10_Witness ==
  /\ AllTCP
  /\ tpc["up"] = "returned"
  /\ rdShut["conn"] /\ wrShut["d"]
  /\ ~rdShut["d"] /\ ~wrShut["conn"]
  /\ "d" \in late
  /\ endedBy["down"] = "EOF"
  /\ tpc["down"] = "CloseRead"
  /\ sentN["d"] = MaxBytes
  /\ out["conn"] = Stream(MaxBytes)
  /\ \A c \in Conns : closed[c] = 0

\* no transfer was started and no WaitGroup counted
NoTransfer ==
  /\ \A X \in Dirs : tpc[X] = "none" /\ done[X] = 0
  /\ wg = 0

\* C11: a handler whose destination is nil or whose dial failed has opened
\* no destination connection and started no transfer, and when it has
\* returned it has closed the inbound connection exactly once; the accept
\* loop of the proxy stays in its loop and accepts the next connection.
C11_DialFailure ==
  /\ lpc["proxy"] \in {"off", "nil", "Accept"}
  /\ hpc = "ErrClose" =>
       /\ ~Dialed
       /\ NoTransfer
       /\ \A c \in Conns : closed[c] = 0
  /\ (hpc = "returned" /\ ~Dialed) =>
       /\ NoTransfer
       /\ closed["conn"] = 1
       /\ closed["d"] = 0
  /\ ( /\ failedDials > 0
       /\ hpc = "returned"
       /\ listening["proxy"]
       /\ accepts["proxy"] < MaxAccepts )
     => ENABLED (\E k \in Kinds : Accept(k))

\* after a session that ended on a failed dial, a later connection was
\* accepted, relayed and closed
C11_Witness ==
  /\ failedDials >= 1
  /\ accepts["proxy"] = 2
  /\ Dialed
  /\ hpc = "returned"
  /\ BothDone
  /\ ClosedOnce

\* Copy call i takes its Write step
WriteStep(i) == cpc[i] = "Write" /\ cpc'[i] # "Write"

\* C12, as stated: a Write that accepts fewer bytes than were read makes Copy
\* return ErrShortWrite, whatever error the Write reported.
C12_Orig ==
  [][\A i \in Copies :
       (WriteStep(i) /\ nw'[i] < nr[i]) =>
          /\ cpc'[i] = "returned"
          /\ err'[i] = ErrShortWrite
    ]_vars

\* C12, amended: a Write that accepts fewer bytes than were read ends the
\* loop without another Read; Copy returns ErrShortWrite if the Write
\* reported no error, and the Write's own error if it reported one.
C12_ShortWrite ==
  [][\A i \in Copies :
       (WriteStep(i) /\ nw'[i] < nr[i]) =>
          /\ cpc'[i] = "returned"
          /\ rdN'[i] = rdN[i]
          /\ err'[i] = IF ew'[i] = Nil THEN ErrShortWrite ELSE ew'[i]
    ]_vars

\* a short write without an error of the writer's
C12_Witness ==
  /\ cpc["echo"] = "returned"
  /\ nw["echo"] < nr["echo"]
  /\ ew["echo"] = Nil
  /\ err["echo"] = ErrShortWrite

\* Copy call i returns in this step, and no Write of the call has failed
ReturnsUnfailed(i) ==
  /\ cpc[i] \in {"Read", "Write"}
  /\ cpc'[i] = "returned"
  /\ cpc[i] = "Write" => (ew'[i] = Nil /\ nw'[i] = nr[i])

\* C13: Copy never reads again after a Read that reported an error; when no
\* Write failed it returns nil for io.EOF and the read error otherwise, with
\* the count of all bytes read, those of the last Read included; a timeout
\* is logged below error level, io.EOF not at all, another error at error
\* level.
C13_ReadErrors ==
  [][\A i \in Copies :
       /\ cpc'[i] = "Read" => er'[i] = Nil
       /\ ReturnsUnfailed(i) =>
            /\ er'[i] # Nil
            /\ err'[i] = (IF er'[i] = EOF THEN Nil ELSE er'[i])
            /\ written'[i] = rdN'[i]
            /\ dstW'[i] = Stream(rdN'[i])
            /\ logged'[i] = (IF er'[i] = EOF THEN {}
                             ELSE IF er'[i] = "timeout" THEN {<<"verbose", "read">>}
                             ELSE {<<"error", "read">>})
    ]_vars

\* the Read that reported io.EOF also delivered the last byte, which is
\* counted
C13_Witness ==
  /\ cpc["echo"] = "returned"
  /\ er["echo"] = EOF
  /\ nr["echo"] = 1
  /\ rdN["echo"] = MaxBytes
  /\ written["echo"] = MaxBytes
  /\ err["echo"] = Nil
  /\ logged["echo"] = {}

\* C14: what Copy has written is a prefix of what it has read, its count is
\* the number of bytes written, and when it returns nil it has written the
\* whole stream up to its end; the TCP echo handler closes the connection
\* only after Copy has returned, so the connection then got back what it
\* had sent.
C14_Prefix ==
  /\ \A i \in Copies :
       /\ IsPrefix(dstW[i], Stream(rdN[i]))
       /\ written[i] = Len(dstW[i])
       /\ (cpc[i] = "returned" /\ err[i] = Nil) =>
            /\ er[i] = EOF
            /\ dstW[i] = Stream(rdN[i])
  /\ econnClosed <= 1
  /\ econnClosed > 0 => cpc["echo"] = "returned"
  /\ epc = "returned" => econnClosed = 1

\* an echo connection was closed after it got back all MaxBytes bytes, read
\* one by one
C14_Witness ==
  /\ epc = "returned"
  /\ econnClosed = 1
  /\ err["echo"] = Nil
  /\ nr["echo"] = 0
  /\ rdN["echo"] = MaxBytes
  /\ dstW["echo"] = Stream(MaxBytes)

\* the goroutine of the NetCat call has not yet left its Copy
PumpRunning == gpc \in {"start", "Copy"}

\* the TCP call got its socket, ran Copy(out, d) and returned
ReturnedTCP == proto = "tcp" /\ npc = "returned" /\ gpc # "none"

\* a TCP call with stopOnEOF false returns only after Copy(out, d), Copy(d, in)
\* and d.CloseWrite() are done; with stopOnEOF true it returns after
\* Copy(out, d) without having passed wg.Wait()
ReturnsAfterPumps ==
  /\ (ReturnedTCP /\ ~stopOnEOF) =>
        /\ cpc["down"] = "returned"
        /\ gpc = "returned"
        /\ cpc["up"] = "returned"
        /\ dState.wrShut
        /\ waited
  /\ (ReturnedTCP /\ stopOnEOF) =>
        /\ cpc["down"] = "returned"
        /\ ~waited

ReturnsAfterCopies ==
  /\ npc # "returned"
  /\ npc' = "returned"
  /\ cpc[Inline(proto)] = "returned"
  /\ gpc = "returned"

\* C16: a NetCat call, TCP or UDP, whose two pumps have ended returns the
\* error of Copy(out, d) if there was one, else the error of Copy(d, in) if
\* there was one, else nil.
C16_FirstError ==
  [][ReturnsAfterCopies =>
       nres' = IF err["down"] # Nil THEN err["down"] ELSE err["up"]]_vars

\* C17: when NetCat has returned, by whatever path, the close of in and the
\* close of out have been run, so that each of them that implements
\* io.Closer has been closed.
C17_StreamsClosed ==
  npc = "returned" => \A s \in Streams : ioClosed[s] >= 1

\* the UDP call is in Copy(d, in), which has returned
UploadDone == proto = "udp" /\ npc = "Copy" /\ cpc["up"] = "returned"

\* C18: UDP NetCat sets the read deadline of its socket only after its upload
\* Copy(d, in) has returned and before it waits for the download pump, and a
\* call whose upload has ended eventually returns, even when the peer sends
\* nothing more.
C18_Deadline ==
  /\ []((proto = "udp" /\ dState.deadline) =>
          (cpc["up"] = "returned" /\ npc \in {"Wait", "Return", "returned"}))
  /\ []((proto = "udp" /\ npc = "Wait") => dState.deadline)
  /\ (UploadDone ~> npc = "returned")

\* the input ended, the peer never sent a datagram, and the call has returned
\* after its download pump timed out
C18_Witness ==
  /\ proto = "udp"
  /\ npc = "returned"
  /\ er["up"] = EOF
  /\ sent = 0
  /\ ~sockErr
  /\ re = "timeout"

\* C19: the synchronous UDP echo server has written the reply to datagram k
\* before it reads datagram k+1: its replies are in the order of arrival,
\* the k-th to the sender of the k-th datagram with the bytes of the k-th
\* datagram, and at a read every datagram received so far has its reply.
C19_SyncInOrder ==
  (lpc["udp"] \in {"Accept", "Handle"} /\ ~async) =>
    /\ Len(uwrites) <= Len(urcvd)
    /\ \A k \in 1..Len(uwrites) : uwrites[k] = WriteToUDP(k, urcvd[k])
    /\ lpc["udp"] = "Accept" => Len(uwrites) = Len(urcvd)
    /\ lpc["udp"] = "Handle" => Len(uwrites) = Len(urcvd) - 1

\* two datagrams of different senders and bytes were waiting together, and
\* both have been answered
C19_Witness ==
  /\ lpc["udp"] = "Accept"
  /\ ~async
  /\ Len(uwrites) = MaxAccepts
  /\ uwrites[1].addr # uwrites[2].addr
  /\ uwrites[1].data # uwrites[2].data

\* a failed Accept or ReadFromUDP leaves the loop at its top, without a
\* handler
ErrStep ==
  \A s \in Servers :
    (lpc[s] = "Accept" /\ ~errSeen[s] /\ errSeen'[s]) =>
       /\ lpc'[s] = "Accept"
       /\ spawned'[s] = spawned[s]
       /\ accepts'[s] = accepts[s]

\* C20: in the TCP echo, UDP echo and proxy loops an error of Accept or
\* ReadFromUDP never ends the loop and never starts a handler: the loop is
\* at its accept or receive again at once, where it can serve the next
\* connection or datagram if the listener still works, and fail again, with
\* nothing in between, if it does not.
C20_LoopSurvivesErrors ==
  /\ [][ErrStep]_vars
  /\ [](\A s \in Servers : errSeen[s] => lpc[s] \in {"Accept", "Handle"})
  /\ [](\A s \in Servers : lpc[s] = "Accept" => ENABLED AcceptErr(s))

\* a loop has served after an error, and its listener was closed since
C20_Witness ==
  \E s \in Servers : okAfterErr[s] /\ accepts[s] = MaxAccepts /\ ~listening[s]

\* the smaller of two sizes
Min(a, b) == IF a < b THEN a ELSE b

\* C21: a call of GeneratePayload made while no ChangeMaxPayloadSize is in
\* progress never panics and returns the file's bytes (none if it cannot be
\* read) for a non-empty path, whatever the size and the literal; else, for
\* a size > 0, the first min(size, MaxPayloadSize) bytes of the buffer; else
\* the bytes of the literal. The maximum is never negative and is the length
\* of the buffer.
C21_Precedence ==
  /\ MaxPayloadSize >= 0
  /\ chg = "idle" => Len(Payload) = MaxPayloadSize
  /\ ~pret.busy =>
       /\ ~pret.panic
       /\ pret.res =
            IF pret.file # ""
              THEN (IF pret.file = "file" THEN FileBytes ELSE <<>>)
            ELSE IF pret.size > 0
              THEN SubSeq(pret.buf, 1, Min(pret.size, pret.max))
            ELSE BytesOf(pret.lit)

\* after a change of the maximum a size above it was asked for, with a
\* literal, and the whole new buffer was returned
C21_Witness ==
  /\ gen >= 1
  /\ ~pret.busy
  /\ pret.file = ""
  /\ pret.lit # ""
  /\ pret.size > pret.max
  /\ pret.max >= 1
  /\ pret.res = Filled(gen, pret.max)

\* C22: when the bind fails Listen and UDPListen return a nil listener and a
\* nil address, and TCPEchoServer, UDPEchoServer and Proxy return nil: no
\* loop is started, nothing is accepted, and the bind is not tried again.
C22_BindFailure ==
  /\ [](Listen(FALSE) = [listener |-> "nil", addr |-> "nil"])
  /\ [][\A s \in Servers :
          (lpc[s] = "off" /\ lpc'[s] # "off" /\ ~listening'[s]) => lpc'[s] = "nil"]_vars
  /\ [](\A s \in Servers :
          lpc[s] = "nil" =>
            (~listening[s] /\ accepts[s] = 0 /\ spawned[s] = 0 /\ ~errSeen[s]))
  /\ [][\A s \in Servers : lpc[s] = "nil" => lpc'[s] = "nil"]_vars

\* the asynchronous UDP echo server could not bind
C22_Witness ==
  /\ lpc["udp"] = "nil"
  /\ async
  /\ ~listening["udp"]

\* request r leaves the critical section of StopByRunID in this step
StopStep(r) == rq[r].pc = "StopLocked" /\ rq'[r].pc # "StopLocked"

\* C23: StopByRunID with runid <= 0 aborts every registered run, empties the
\* registry and returns how many runs were registered; with runid > 0 it
\* removes and aborts that run alone and returns 1, or returns 0 and changes
\* nothing when the id is not registered. However stop calls interleave, no
\* run is aborted twice.
C23_Stop ==
  /\ [][\A r \in Reqs :
          /\ (StopStep(r) /\ rq[r].runid <= 0) =>
                /\ runs' = {}
                /\ rq'[r].pc = "done"
                /\ rq'[r].ret = Cardinality(runs)
                /\ \A i \in 1..MaxRuns :
                     aborted'[i] = aborted[i] + (IF i \in runs THEN 1 ELSE 0)
          /\ (StopStep(r) /\ rq[r].runid > 0 /\ rq[r].runid \in runs) =>
                /\ runs' = runs \ {rq[r].runid}
                /\ rq'[r].pc = "Abort"
          /\ (StopStep(r) /\ rq[r].runid > 0 /\ rq[r].runid \notin runs) =>
                /\ UNCHANGED <<runs, aborted>>
                /\ rq'[r].pc = "done"
                /\ rq'[r].ret = 0
          /\ (rq[r].pc = "Abort" /\ rq'[r].pc # "Abort") =>
                /\ rq'[r].pc = "done"
                /\ rq'[r].ret = 1
                /\ \A i \in 1..MaxRuns :
                     aborted'[i] = aborted[i] + (IF i = rq[r].runid THEN 1 ELSE 0)]_vars
  /\ [](\A i \in 1..MaxRuns : aborted[i] <= 1)

\* two concurrent stops of one run: one stopped it, the other did not find it
C23_Witness ==
  /\ \A r \in {1, 2} : rq[r].kind = "stop" /\ rq[r].pc = "done"
  /\ rq[1].runid = rq[2].runid
  /\ rq[1].runid > 0
  /\ rq[1].ret + rq[2].ret = 1
  /\ aborted[rq[1].runid] = 1

\* goroutine p reads or writes dnsHost, dnsAddrs or dnsRoundRobin in this step
TouchesShared(p) ==
  /\ pc'[p] # pc[p]
  /\ \/ pc[p] \in {"ccLoad", "ccStore", "rrIdx", "rrLoad", "rrStore", "clear"}
     \/ pc[p] = "checkCache"

\* C24: every read and every write of the cached host, the cached addresses
\* and the round-robin counter is made by a goroutine that holds dnsMutex
\* (it has it before the step, or takes it in the step), so that the counter
\* a goroutine stores is the successor of the counter at that moment.
C24_LockHeld ==
  [][/\ \A p \in Procs : TouchesShared(p) => (dnsMutex = p \/ dnsMutex' = p)
     /\ <<dnsHost, dnsAddrs, dnsRoundRobin>> # <<dnsHost', dnsAddrs', dnsRoundRobin'>>
           => dnsMutex # 0
     /\ \A p \in Procs :
          (pc[p] \in {"ccStore", "rrStore"} /\ pc'[p] # pc[p]) => ld[p] = dnsRoundRobin]_vars

\* C25: a call of checkCache that finds the requested host in the cache,
\* whatever the host and whatever was done before, finds a cached address
\* list that is not empty, takes the counter modulo its length, and no
\* goroutine ends with dnsMutex held.
C25_HitNonEmpty ==
  /\ [][\A p \in Procs :
          (pc[p] = "checkCache" /\ pc'[p] # "checkCache" /\ found(host[p])) =>
             /\ Len(dnsAddrs) > 0
             /\ pc'[p] = "ccLoad"
             /\ idx'[p] = U32Rem(dnsRoundRobin, Len(dnsAddrs))]_vars
  /\ [](\A p \in Procs : pc[p] = "panic" => dnsMutex # p)

\* C26: when the client ends its stream and the destination ends its own
\* once it sees the end of the stream, a session that relays, whatever the
\* kinds of its two connections, ends with both transfers returned and both
\* connections closed once each; and the end of a direction's copy reaches
\* the peer that direction writes to.
C26_SessionCloses ==
  /\ (hpc = "transfer") ~>
       /\ hpc = "returned"
       /\ \A X \in Dirs : tpc[X] = "returned"
       /\ \A c \in Conns : closed[c] = 1
  /\ \A X \in Dirs : (tpc[X] = "Done") ~> SeesEOF(Dst(X))

\* the same for a session whose destination connection is a TCP connection
C26_TCPDestination ==
  (hpc = "transfer" /\ kind["d"] = "tcp") ~>
     /\ hpc = "returned"
     /\ \A X \in Dirs : tpc[X] = "returned"
     /\ \A c \in Conns : closed[c] = 1

\* the goroutine of the NetCat call has stored the results of its Copy
PumpStored == gpc \in {"CloseWrite", "Done", "returned"}

\* C27: in a TCP NetCat call, with stopOnEOF true or false, the step that
\* logs the pump's results and closes the socket, and the step that reads
\* the pump's error for the return value, are taken only after the pump's
\* goroutine has stored the results of its Copy.
C27_AfterPumpStored ==
  [][/\ (proto = "tcp" /\ npc = "Close" /\ npc' # "Close") => PumpStored
     /\ (proto = "tcp" /\ npc = "Return" /\ npc' = "returned") => PumpStored]_vars

\* the run request r has a registered run whose runner has not returned, or
\* whose RemoveRun is still to come
Registered(r) == rq[r].kind = "run" /\ rq[r].pc \in {"Run", "RemoveRun", "RemoveRunLocked"}

\* the run request r is rejected in this step
RejectStep(r) == rq[r].pc # "rejected" /\ rq'[r].pc = "rejected"

\* C28: a run registered by RESTRunHandler is out of the registry once Run
\* is over, with or without an error of the runner and with async on or off,
\* and Run is over some time after the runner returns; a request rejected
\* before AddRun has no run id and leaves runs and id as they were.
C28_RunsRemoved ==
  /\ [](\A r \in Reqs :
          (rq[r].kind = "run" /\ rq[r].pc = "done") =>
             (rq[r].runid >= 1 /\ rq[r].runid \notin runs))
  /\ [](\A r \in Reqs : rq[r].pc = "rejected" => rq[r].runid = 0)
  /\ [][\A r \in Reqs : RejectStep(r) => (runs' = runs /\ id' = id)]_vars
  /\ \A r \in Reqs :
        (rq[r].pc = "RemoveRun") ~> (rq[r].pc = "done" /\ rq[r].runid \notin runs)

\* an asynchronous run whose runner failed is over and out of the registry,
\* and the other request was rejected for its duration
C28_Witness ==
  \E r, q \in Reqs :
    /\ rq[r].kind = "run" /\ rq[r].pc = "done"
    /\ rq[r].async /\ rq[r].err
    /\ rq[r].runid \notin runs
    /\ rq[q].pc = "rejected" /\ rq[q].why = "duration"
    /\ id = 1

\* C29: the ids AddRun returns are 1, 2, 3, ... in the order of the lock:
\* each is at least 1 and one more than the one before, so none is given
\* twice and none is 0; the registered ids are among them, and no two run
\* requests hold the same id.
C29_FreshIDs ==
  /\ assigned = [i \in 1..id |-> i]
  /\ runs \subseteq 1..id
  /\ \A r \in Reqs : Registered(r) => rq[r].runid \in 1..id
  /\ \A r, q \in Reqs :
        (r # q /\ rq[r].kind = "run" /\ rq[q].kind = "run"
           /\ rq[r].runid # 0 /\ rq[q].runid # 0) => rq[r].runid # rq[q].runid

\* two runs are registered at once, under ids 1 and 2
C29_Witness ==
  /\ assigned = <<1, 2>>
  /\ runs = {1, 2}
  /\ \A r \in Reqs : Registered(r)

\* C30: every reply of the asynchronous UDP echo server goes to the sender
\* of the datagram its handler was started for and carries that datagram's
\* bytes, in whatever order the handlers run and however many datagrams
\* were received in between; no datagram is answered twice, and a handler
\* that has not run yet still sees the bytes of its own datagram.
C30_AsyncOwnBytes ==
  async =>
    /\ \A i \in 1..Len(uwrites) :
          /\ uwrites[i].k \in 1..Len(urcvd)
          /\ uwrites[i] = WriteToUDP(uwrites[i].k, urcvd[uwrites[i].k])
    /\ \A i, j \in 1..Len(uwrites) : i # j => uwrites[i].k # uwrites[j].k
    /\ \A h \in uhandlers : Seen(h.addr, h.b) = urcvd[h.k]

\* the reply to the second datagram was written before the reply to the
\* first, which has different bytes and another sender
C30_Witness ==
  /\ async
  /\ Len(uwrites) = 2
  /\ uwrites[1].k = 2 /\ uwrites[2].k = 1
  /\ urcvd[1].data # urcvd[2].data
  /\ urcvd[1].addr # urcvd[2].addr

\* p returns from a cache hit in this step
HitReturns(p) == pc[p] = "ccStore" /\ pc'[p] # "ccStore"

\* C31: while an entry of N addresses lasts, a hit that follows a hit or the
\* install returns the index after the one returned before, modulo N, and
\* so does the hit that follows the wrap of the counter from 2^32-1 to 0,
\* for N = 2 and for N = 3.
C31_CycleContinues ==
  [][\A p \in Procs :
       (HitReturns(p) /\ lastIdx >= 0) =>
          idx[p] = (lastIdx + 1) % Len(dnsAddrs)]_vars

\* the same for an entry whose length divides 2^32
C31_PowerOfTwo ==
  [][\A p \in Procs :
       (HitReturns(p) /\ lastIdx >= 0 /\ Len(dnsAddrs) = 2) =>
          idx[p] = (lastIdx + 1) % Len(dnsAddrs)]_vars

====
